---- MODULE Spec2Model ----
(***************************************************************************)
(* A state-machine model of nucypher/utilities/clouddeploy.py: the cloud   *)
(* node configurators (BaseCloudNodeConfigurator, DigitalOceanConfigurator,*)
(* AWSNodeConfigurator, GenericConfigurator), the JSON state file they     *)
(* keep, and the ansible result collector; and of Web3Client.from_w3 of    *)
(* nucypher/blockchain/eth/clients.py.                                     *)
(*                                                                         *)
(* Python values are modelled as strings: None is "None", '' is "", the    *)
(* booleans of seed_network are "True" / "False".  A dict key that is      *)
(* absent and a key holding None are both "None" wherever the code reads   *)
(* the key with .get(); where the code subscripts (config['Vpc'],          *)
(* config['instances']) the absent key raises KeyError in the model too.   *)
(* config['instances'] is an insertion-ordered dict: a sequence of         *)
(* entries, each carrying its key in the field "name".                     *)
(***************************************************************************)
EXTENDS Integers, Sequences, FiniteSets, TLC

VARIABLES
    file,       \* the state file at config_path: [exists, cfg]
    config,     \* self.config of the driver object of the running invocation
    drv,        \* the driver object's own attributes
    pc,         \* where the running invocation stands
    op,         \* the operation the driver object is carrying out
    names,      \* node_names of the running operation, in iteration order
    idx,        \* position of the running loop over names
    sub,        \* index into SubResources of _destroy_resources' for loop
    tries,      \* the local variable tries of _destroy_resources
    result,     \* what _destroy_resources returned
    capture,    \* self.output_capture: label -> list of (host, value)
    cloud,      \* what the provider holds (attachments, pending droplet)
    lastCall,   \* the provider call issued by the last step, if any
    h           \* history of the running operation (observation only)

vars == <<file, config, drv, pc, op, names, idx, sub, tries, result, capture, cloud, lastCall, h>>

---------------------------------------------------------------------------
(* Bounds of the model *)

MaxNodes == 2
MaxInst == 3
MaxLines == 2
MaxCaptured == 2
MaxRuns == 3
MaxHosts == 2

(* Program constants *)

TRIES_LIMIT == 10
GIVE_UP_ABOVE == 10

---------------------------------------------------------------------------
(* Values *)

None == "None"

\* Python truthiness of the values the model uses
Truthy(v) == v \notin {None, "", "False"}

Names == {"w" \o ToString(i) : i \in 1..MaxNodes}

\* the instances the provider can hand out: handle and public address
InstancePool == 1..MaxInst
InstanceIdOf(i) == "i-" \o ToString(i)
AddressOf(i) == "ip" \o ToString(i)
Addresses == {AddressOf(i) : i \in InstancePool}

ProviderNames == {"aws", "digitalocean", "generic"}

Labels == {"worker address", "rest url", "nucypher version", "nickname"}

OverrideKeys == {"blockchain_provider", "nucypher_image", "sentry_dsn", "gas_strategy"}

\* the for loop of the teardown, were it to run backwards
SubResourcesBackwards == <<"SecurityGroup", "RouteTable", "Subnet">>

SubResources == <<"Subnet", "RouteTable", "SecurityGroup">>

SharedKinds == {"Vpc", "InternetGateway", "RouteTable", "Subnet", "SecurityGroup", "keypair"}

Prerequisites == {"Vpc", "InternetGateway", "RouteTable", "Subnet", "SecurityGroup"}

\* the order in which the AWS setup makes them
Chain == <<"Vpc", "InternetGateway", "RouteTable", "Subnet", "SecurityGroup">>

\* the identifier the provider returns for a shared resource
ResourceId(kind) == "id-" \o kind

DEFAULT_IMAGE == "nucypher/nucypher:latest"
DEFAULT_PROVIDER == "geth.ipc"
default_region == "SFO3"

---------------------------------------------------------------------------
(* self.config and the entries of config['instances'] *)

ConfigKeys ==
    {"namespace", "keyringpassword", "ethpassword", "region", "sshkey", "profile",
     "keypair", "keypair_path", "Vpc", "InternetGateway", "RouteTable", "Subnet",
     "SecurityGroup", "blockchain_provider", "nucypher_image", "sentry_dsn",
     "gas_strategy", "gas-strategy", "seed_network", "seed_node",
     "stakeholder_config_file", "use-prometheus"}

\* a dict with no key set; hasInstances tells whether the key 'instances' exists
EmptyConfig ==
    [k \in ConfigKeys |-> None] @@ [hasInstances |-> FALSE, instances |-> <<>>]

InstanceKeys ==
    {"name", "provider", "InstanceId", "publicaddress", "remote_provider",
     "provider_deploy_attrs"}
        \cup OverrideKeys \cup Labels

\* dict.get(key, default)
Get(d, k, default) == IF d[k] = None THEN default ELSE d[k]

\* a or b, on the model's values
Or(a, b) == IF Truthy(a) THEN a ELSE b

HasInstance(cfg, n) == \E i \in 1..Len(cfg.instances) : cfg.instances[i]["name"] = n

PositionOf(cfg, n) == CHOOSE i \in 1..Len(cfg.instances) : cfg.instances[i]["name"] = n

InstanceOf(cfg, n) == cfg.instances[PositionOf(cfg, n)]

InstanceNames(cfg) == {cfg.instances[i]["name"] : i \in 1..Len(cfg.instances)}

\* config['instances'][name] = entry: an existing key keeps its place
PutInstance(cfg, e) ==
    IF HasInstance(cfg, e["name"])
    THEN [cfg EXCEPT !.instances[PositionOf(cfg, e["name"])] = e]
    ELSE [cfg EXCEPT !.instances = Append(@, e)]

\* del config['instances'][name]
DelInstance(cfg, n) ==
    [cfg EXCEPT !.instances = SelectSeq(@, LAMBDA e : e["name"] # n)]

NewInstance(n) == [k \in InstanceKeys |-> IF k = "name" THEN n ELSE None]

\* _write_config: json.dump(self.config) into config_path
WriteConfig(cfg) == [exists |-> TRUE, dir |-> TRUE, torn |-> FALSE, cfg |-> cfg]

NoFile == [exists |-> FALSE, dir |-> FALSE, torn |-> FALSE, cfg |-> EmptyConfig]

\* the file when the process ends between open(self.config_path, 'w'), which
\* empties it, and the end of json.dump: the beginning of the new text at most
TornWrite == [exists |-> TRUE, dir |-> TRUE, torn |-> TRUE, cfg |-> EmptyConfig]

---------------------------------------------------------------------------
(* Provider calls *)

NoCall == [op |-> "none", target |-> None]
Call(o, t) == [op |-> o, target |-> t]

---------------------------------------------------------------------------
(* BaseCloudNodeConfigurator.__init__ and the drivers' _configure_provider_params *)

\* the outcome of _configure_provider_params
ParamsResult(raised, cfg, call, session) ==
    [raised |-> raised, cfg |-> cfg, call |-> call, session |-> session]

\* BaseCloudNodeConfigurator._configure_provider_params (GenericConfigurator inherits it)
BaseParams(cfg) == ParamsResult(FALSE, cfg, NoCall, FALSE)

\* DigitalOceanConfigurator._configure_provider_params; its own _write_config comes
\* last and is followed, in __init__, by the write of the same object
DigitalOceanParamsUnchecked(cfg, env) ==
    ParamsResult(FALSE,
                 [cfg EXCEPT !["region"] = IF Truthy(Or(env.region, cfg["region"]))
                                           THEN Or(env.region, cfg["region"])
                                           ELSE default_region,
                             !["sshkey"] = Or(env.sshkey, cfg["sshkey"])],
                 NoCall, FALSE)

DigitalOceanParams(cfg, env) ==
    IF ~Truthy(env.token)
    THEN ParamsResult(TRUE, cfg, NoCall, FALSE)
    ELSE LET region == IF Truthy(Or(env.region, cfg["region"]))
                       THEN Or(env.region, cfg["region"])
                       ELSE default_region
             c1 == [cfg EXCEPT !["region"] = region]
             sshkey == Or(env.sshkey, cfg["sshkey"])
         IN  IF ~Truthy(sshkey)
             THEN ParamsResult(TRUE, c1, NoCall, FALSE)
             ELSE ParamsResult(FALSE, [c1 EXCEPT !["sshkey"] = sshkey], NoCall, FALSE)

\* AWSNodeConfigurator._configure_provider_params with _create_keypair; callOk is
\* whether ec2Client.create_key_pair succeeds
AWSParams(cfg, provider_profile, env, callOk) ==
    LET profile == Or(provider_profile, cfg["profile"])
        session == profile \in env.profiles
        c1 == [cfg EXCEPT !["profile"] = profile]
    IN  IF ~Truthy(profile)
        THEN ParamsResult(TRUE, cfg, NoCall, FALSE)
        ELSE IF Truthy(c1["keypair"])
        THEN ParamsResult(FALSE, c1, NoCall, session)
        ELSE IF ~session
        THEN ParamsResult(TRUE, c1, NoCall, FALSE)
        ELSE IF ~callOk
        THEN ParamsResult(TRUE, c1, Call("create", "keypair"), session)
        ELSE ParamsResult(FALSE,
                          [c1 EXCEPT !["keypair_path"] = "ns.awskeypair",
                                     !["keypair"] = ResourceId("keypair")],
                          Call("create", "keypair"), session)

ProviderParams(kind, cfg, in, env, callOk) ==
    CASE kind = "digitalocean" -> DigitalOceanParams(cfg, env)
      [] kind = "aws" -> AWSParams(cfg, in.profile, env, callOk)
      [] OTHER -> BaseParams(cfg)

\* f'--gas-strategy {gas_strategy}' if gas_strategy else ''
GasStrategyOption(gas_strategy) ==
    IF Truthy(gas_strategy) THEN "--gas-strategy " \o gas_strategy ELSE ""

\* self.host_level_overrides
HostLevelOverrides(in) ==
    [k \in OverrideKeys |->
        IF k = "gas_strategy" THEN GasStrategyOption(in.gas_strategy) ELSE in[k]]

\* the fleet-wide value of gas_strategy that __init__ stores
FleetGasStrategy(cfg, in) ==
    IF Truthy(in.gas_strategy)
    THEN GasStrategyOption(in.gas_strategy)
    ELSE Get(cfg, "gas-strategy", "")

\* seed_network if seed_network is not None else self.config.get('seed_network')
SeedNetworkOf(cfg, in) ==
    IF in.seed_network # None THEN in.seed_network ELSE cfg["seed_network"]

\* __init__ without its self.config.pop('seed_node', None)
ApplyOptionsKeepingSeedNode(cfg, in) ==
    [cfg EXCEPT
        !["blockchain_provider"] =
            Or(Or(in.blockchain_provider, cfg["blockchain_provider"]), DEFAULT_PROVIDER),
        !["nucypher_image"] =
            Or(Or(in.nucypher_image, cfg["nucypher_image"]), DEFAULT_IMAGE),
        !["sentry_dsn"] = Or(in.sentry_dsn, cfg["sentry_dsn"]),
        !["gas_strategy"] = FleetGasStrategy(cfg, in),
        !["seed_network"] = SeedNetworkOf(cfg, in),
        !["stakeholder_config_file"] = in.stakeholder_config_path,
        !["use-prometheus"] = in.prometheus]

\* the part of __init__ that follows _configure_provider_params, up to the write
ApplyOptions(cfg, in) ==
    LET c1 == [cfg EXCEPT
                !["blockchain_provider"] =
                    Or(Or(in.blockchain_provider, cfg["blockchain_provider"]), DEFAULT_PROVIDER),
                !["nucypher_image"] =
                    Or(Or(in.nucypher_image, cfg["nucypher_image"]), DEFAULT_IMAGE),
                !["sentry_dsn"] = Or(in.sentry_dsn, cfg["sentry_dsn"]),
                !["gas_strategy"] = FleetGasStrategy(cfg, in),
                !["seed_network"] = SeedNetworkOf(cfg, in)]
        c2 == IF ~Truthy(c1["seed_network"]) THEN [c1 EXCEPT !["seed_node"] = None] ELSE c1
    IN  [c2 EXCEPT !["stakeholder_config_file"] = in.stakeholder_config_path,
                   !["use-prometheus"] = in.prometheus]

\* the config __init__ starts from: the file's, or a new one with fresh passwords
LoadConfigRegenerated(f, keyringpassword, ethpassword) ==
    [(IF f.exists THEN f.cfg ELSE EmptyConfig) EXCEPT
        !["namespace"] = "ns",
        !["keyringpassword"] = keyringpassword,
        !["ethpassword"] = ethpassword]

LoadConfig(f, keyringpassword, ethpassword) ==
    IF f.exists
    THEN f.cfg
    ELSE [EmptyConfig EXCEPT !["namespace"] = "ns",
                             !["keyringpassword"] = keyringpassword,
                             !["ethpassword"] = ethpassword]

\* json.load(open(self.config_path)) raises on a file that is not whole
Unreadable(f) == f.exists /\ f.torn

\* whether the driver's _write_config writes: GenericConfigurator's raises
\* AttributeError when config_path does not exist
CanWriteAlways(kind, f) == TRUE

CanWrite(kind, f) == kind # "generic" \/ f.exists

\* a credential or profile the driver requires is given neither by the
\* environment or the options nor by the config
Lacks(kind, cfg, in, env) ==
    CASE kind = "digitalocean" -> ~Truthy(env.token) \/ ~Truthy(Or(env.sshkey, cfg["sshkey"]))
      [] kind = "aws" -> ~Truthy(Or(in.profile, cfg["profile"]))
      [] OTHER -> FALSE

NoDriver ==
    [kind |-> None, session |-> FALSE, vpc |-> FALSE, created_new_nodes |-> FALSE,
     host_level_overrides |-> [k \in OverrideKeys |-> None]]

NewDriver(kind, session, in) ==
    [kind |-> kind, session |-> session, vpc |-> FALSE, created_new_nodes |-> FALSE,
     host_level_overrides |-> HostLevelOverrides(in)]

EmptyCapture == [k \in Labels |-> <<>>]

---------------------------------------------------------------------------
(* History of the running operation *)

NoPrev == [what |-> "none", names |-> {}, kind |-> None]

\* what the history keeps of the constructor that ran last
NoCtor == [kind |-> None, lacks |-> FALSE]

FreshHistory(f, prev) ==
    [created |-> {}, terminated |-> {}, touched |-> {},
     made |-> [k \in Prerequisites |-> 0],
     anyCall |-> FALSE, snap |-> f, fromEmpty |-> ~f.exists,
     exhausted |-> FALSE, failedAt |-> 0, mode |-> "plain",
     ctorCall |-> FALSE, runs |-> 0, ctor |-> NoCtor,
     requested |-> {}, prev |-> prev]

\* the history after a provider call on a shared resource
NoteShared(hh, kind) == [hh EXCEPT !.touched = @ \cup {kind}, !.anyCall = TRUE]

NoteMade(hh, kind) ==
    [hh EXCEPT !.touched = @ \cup {kind}, !.anyCall = TRUE, !.made[kind] = @ + 1]

---------------------------------------------------------------------------
(* The state after no invocation has run yet *)

NoCloud == [pending |-> 0, attached |-> FALSE, ingress |-> FALSE]

\* the provider's side once the calls that follow the creation of kind went
\* through: attach_internet_gateway, the authorize_ingress calls
Configured(c, kind) ==
    CASE kind = "InternetGateway" -> [c EXCEPT !.attached = TRUE]
      [] kind = "SecurityGroup" -> [c EXCEPT !.ingress = TRUE]
      [] OTHER -> c

\* the provider's side once kind is detached or deleted
Removed(c, kind) ==
    CASE kind = "InternetGateway" -> [c EXCEPT !.attached = FALSE]
      [] kind = "SecurityGroup" -> [c EXCEPT !.ingress = FALSE]
      [] OTHER -> c

Init ==
    /\ file = NoFile
    /\ config = EmptyConfig
    /\ drv = NoDriver
    /\ pc = "idle"
    /\ op = "none"
    /\ names = <<>>
    /\ idx = 1
    /\ sub = 1
    /\ tries = 0
    /\ result = None
    /\ capture = EmptyCapture
    /\ cloud = NoCloud
    /\ lastCall = NoCall
    /\ h = FreshHistory(NoFile, NoPrev)

\* an invocation has ended: its process constructs no more and runs no more
Ended == pc \in {"idle", "done", "raised", "killed"}

\* the driver object is constructed and has run no operation yet
Usable == pc = "ready"

\* the history when an operation starts on the driver object
StartHistory(mode, requested) ==
    [FreshHistory(file, NoPrev) EXCEPT
        !.fromEmpty = (pc = "ready" /\ h.fromEmpty),
        !.runs = h.runs,
        !.mode = mode,
        !.requested = requested]

\* A command constructs its driver: __init__ as a whole
Construct(kind, in, env, keyringpassword, ethpassword, callOk) ==
    /\ Ended
    /\ LET c0 == LoadConfig(file, keyringpassword, ethpassword)
           p == ProviderParams(kind, c0, in, env, callOk)
           c1 == ApplyOptions(p.cfg, in)
           fresh == [FreshHistory(file, h.prev) EXCEPT
                        !.ctorCall = (p.call # NoCall),
                        !.ctor = [kind |-> kind, lacks |-> Lacks(kind, c0, in, env)],
                        !.runs = IF kind = "generic" THEN h.runs + 1 ELSE h.runs]
       IN  /\ lastCall' = IF Unreadable(file) THEN NoCall ELSE p.call
           /\ h' = IF Unreadable(file) THEN [fresh EXCEPT !.ctorCall = FALSE] ELSE fresh
           /\ IF Unreadable(file) \/ p.raised \/ ~CanWrite(kind, file)
              THEN /\ pc' = "raised"
                   /\ config' = EmptyConfig
                   /\ drv' = NoDriver
                   /\ UNCHANGED file
              ELSE /\ pc' = "ready"
                   /\ config' = c1
                   /\ drv' = NewDriver(kind, p.session, in)
                   /\ file' = WriteConfig(c1)
    /\ op' = "none"
    /\ names' = <<>>
    /\ idx' = 1
    /\ sub' = 1
    /\ tries' = 0
    /\ result' = None
    /\ capture' = EmptyCapture
    /\ UNCHANGED cloud

---------------------------------------------------------------------------
(* BaseCloudNodeConfigurator.create_nodes *)

\* sequences of distinct node names
NameSeqs ==
    {q \in UNION {[1..n -> Names] : n \in 0..MaxNodes} :
        \A i, j \in 1..Len(q) : i # j => q[i] # q[j]}

Range(q) == {q[i] : i \in 1..Len(q)}

\* if not self.config.get('instances'): self.config['instances'] = {}
InitInstancesAnew(cfg) == [cfg EXCEPT !.hasInstances = TRUE, !.instances = <<>>]

InitInstances(cfg) ==
    IF cfg.hasInstances /\ Len(cfg.instances) > 0
    THEN cfg
    ELSE [cfg EXCEPT !.hasInstances = TRUE, !.instances = <<>>]

\* existing_node = self.config['instances'].get(node_name); if not existing_node
NeedsCreateAlways(cfg, n) == TRUE

NeedsCreate(cfg, n) == ~HasInstance(cfg, n)

\* what create_new_node returns for the provider's instance i
NodeData(kind, cfg, n, i) ==
    [NewInstance(n) EXCEPT
        !["InstanceId"] = InstanceIdOf(i),
        !["publicaddress"] = AddressOf(i),
        !["remote_provider"] = IF kind = "digitalocean" THEN cfg["blockchain_provider"] ELSE None,
        !["provider_deploy_attrs"] = IF kind = "aws" THEN cfg["keypair_path"] ELSE "root"]

\* if self.config['seed_network'] and not self.config.get('seed_node')
SeedFromNodeAlways(cfg, address) == [cfg EXCEPT !["seed_node"] = address]

SeedFromNode(cfg, address) ==
    IF Truthy(cfg["seed_network"]) /\ ~Truthy(cfg["seed_node"])
    THEN [cfg EXCEPT !["seed_node"] = address]
    ELSE cfg

\* the body of the loop once create_new_node has returned, up to the write
StoreNode(cfg, kind, node_data) ==
    SeedFromNode(PutInstance(cfg, [node_data EXCEPT !["provider"] = kind]),
                 node_data["publicaddress"])

\* the self._write_config() that follows each created node
PersistNodeNever(f, cfg) == f

\* a write that would first read the file again and keep the entries it finds
PersistNodeMerged(f, cfg) ==
    LET others == SelectSeq(f.cfg.instances, LAMBDA e : ~HasInstance(cfg, e["name"]))
    IN  WriteConfig([cfg EXCEPT !.instances = @ \o others])

PersistNode(f, cfg) == WriteConfig(cfg)

\* how the history names an operation that is over
PrevOf(what) == [what |-> what, names |-> Range(names), kind |-> drv.kind]

\* what a second create_nodes is, seen from the operation before it
CreateMode(q) ==
    IF h.prev.names = Range(q) /\ h.prev.what = "created" THEN "repeat"
    ELSE IF h.prev.names = Range(q) /\ h.prev.what = "create_failed" THEN "resume"
    ELSE "plain"

\* self._do_setup_for_instance_creation(), which only the AWS driver defines,
\* comes before the loop over node_names
FirstStepUnprepared(kind) == "loop"

FirstStep(kind) == IF kind = "aws" THEN "ensure_vpc" ELSE "loop"

StartCreate(q) ==
    /\ Usable
    /\ drv.kind \in {"aws", "digitalocean"}
    /\ op' = "create"
    /\ names' = q
    /\ idx' = 1
    /\ h' = StartHistory(CreateMode(q), Range(q))
    /\ lastCall' = NoCall
    /\ pc' = FirstStep(drv.kind)
    /\ UNCHANGED <<file, config, drv, sub, tries, result, capture, cloud>>

\* The loop of create_nodes; config['instances'] is set to {} before it when it
\* is missing or empty, which the steps below apply as InitInstances.

\* the loop of create_nodes meets a name that has its entry, or runs out of names
CreateSkip ==
    /\ pc = "loop"
    /\ op = "create"
    /\ lastCall' = NoCall
    /\ IF idx > Len(names)
       THEN /\ pc' = "done"
            /\ h' = [h EXCEPT !.prev = PrevOf("created")]
            /\ config' = InitInstances(config)
            /\ UNCHANGED idx
       ELSE /\ ~NeedsCreate(config, names[idx])
            /\ idx' = idx + 1
            /\ UNCHANGED <<pc, h, config>>
    /\ UNCHANGED <<file, drv, op, names, sub, tries, result, capture, cloud>>

\* the instance the provider hands out next: one that no entry of the fleet holds
UsedInstances(cfg) ==
    {i \in InstancePool : \E j \in 1..Len(cfg.instances) :
                             cfg.instances[j]["InstanceId"] = InstanceIdOf(i)}

NewInstanceAt(cfg) ==
    LET free == InstancePool \ UsedInstances(cfg)
    IN  CHOOSE i \in free : \A j \in free : i <= j

\* the history after the creation call for names[idx] was issued
NoteCreate == [h EXCEPT !.created = @ \cup {names[idx]}, !.anyCall = TRUE]

\* the loop's body after create_new_node returned the provider's instance i
NodeCreated(i) ==
    LET c1 == StoreNode(InitInstances(config), drv.kind,
                        NodeData(drv.kind, config, names[idx], i))
    IN  /\ config' = c1
        /\ file' = PersistNode(file, c1)
        /\ drv' = [drv EXCEPT !.created_new_nodes = TRUE]
        /\ idx' = idx + 1
        /\ pc' = "loop"

\* the state file, had create_nodes undone the setup when create_new_node raises
PrerequisitesDropped(f) ==
    [f EXCEPT !.cfg = [k \in DOMAIN f.cfg |-> IF k \in Prerequisites THEN None ELSE f.cfg[k]]]

\* the state file when create_new_node raises: create_nodes has no handler, the
\* exception leaves the file as the last write left it
LeftOnFailure(f) == f

\* AWSNodeConfigurator.create_new_node for names[idx]: run_instances, then the
\* wait for the instance to run; "late" is an error raised by the wait
CreateNodeAWS(outcome) ==
    /\ pc = "loop"
    /\ op = "create"
    /\ drv.kind = "aws"
    /\ idx <= Len(names)
    /\ NeedsCreate(config, names[idx])
    /\ lastCall' = Call("run_instances", names[idx])
    /\ \/ /\ outcome = "fail"
          /\ pc' = "raised"
          /\ h' = [NoteCreate EXCEPT !.failedAt = idx, !.prev = PrevOf("create_failed")]
          /\ file' = LeftOnFailure(file)
          /\ UNCHANGED <<config, drv, idx>>
       \/ /\ outcome = "late"
          /\ pc' = "raised"
          /\ h' = [NoteCreate EXCEPT !.failedAt = idx, !.prev = PrevOf("create_failed")]
          /\ file' = LeftOnFailure(file)
          /\ UNCHANGED <<config, drv, idx>>
       \/ /\ outcome = "ok"
          /\ NodeCreated(NewInstanceAt(config))
          /\ h' = NoteCreate
    /\ UNCHANGED <<op, names, sub, tries, result, capture, cloud>>

\* where create_new_node stands once its POST was accepted: in the loop that
\* polls the droplet until it is active and has a public address
AfterPostUnwaited == "loop"

AfterPost == "waiting"

\* DigitalOceanConfigurator.create_new_node for names[idx], up to the polling loop
CreateNodeDO(outcome) ==
    /\ pc = "loop"
    /\ op = "create"
    /\ drv.kind = "digitalocean"
    /\ idx <= Len(names)
    /\ NeedsCreate(config, names[idx])
    /\ lastCall' = Call("run_instances", names[idx])
    /\ \/ /\ outcome = "fail"
          /\ pc' = "raised"
          /\ h' = [NoteCreate EXCEPT !.failedAt = idx, !.prev = PrevOf("create_failed")]
          /\ UNCHANGED cloud
       \/ /\ outcome = "ok"
          /\ cloud' = [cloud EXCEPT !.pending = NewInstanceAt(config)]
          /\ pc' = AfterPost
          /\ h' = NoteCreate
    /\ UNCHANGED <<file, config, drv, op, names, idx, sub, tries, result, capture>>

\* the polling loop of DigitalOceanConfigurator.create_new_node sees the droplet
\* active with a public address; the loop body of create_nodes follows
DropletActive ==
    /\ pc = "waiting"
    /\ NodeCreated(cloud.pending)
    /\ cloud' = [cloud EXCEPT !.pending = 0]
    /\ lastCall' = Call("describe", names[idx])
    /\ UNCHANGED <<op, names, sub, tries, result, capture, h>>

---------------------------------------------------------------------------
(* AWSNodeConfigurator._do_setup_for_instance_creation: _ensure_vpc and       *)
(* _configure_path_to_internet, one action per provider resource.  An outcome *)
(* "fail" is an error raised by the creating call, "late" one raised by a call*)
(* that follows it (tagging, attaching, authorizing).                         *)

\* a step of the setup raises: create_nodes ends there
SetupRaises(hh) ==
    /\ pc' = "raised"
    /\ h' = [hh EXCEPT !.prev = NoPrev]

\* if not self.config.get(kind)
Missing(cfg, kind) == ~Truthy(cfg[kind])

\* the test that guards each create call of the setup:
\* if not self.config.get(kind), for the network the else of if vpc_id
NeedsResourceAlways(cfg, kind) == TRUE

NeedsResource(cfg, kind) == Missing(cfg, kind)

\* self.config[kind] = the identifier returned
Recorded(cfg, kind) == [cfg EXCEPT ![kind] = ResourceId(kind)]

EnsureVpc(outcome) ==
    /\ pc = "ensure_vpc"
    /\ IF drv.vpc
       THEN /\ outcome = "ok"
            /\ pc' = "gateway"
            /\ lastCall' = NoCall
            /\ UNCHANGED <<file, config, drv, h>>
       ELSE IF ~drv.session
       THEN /\ outcome = "fail"
            /\ SetupRaises(h)
            /\ lastCall' = NoCall
            /\ UNCHANGED <<file, config, drv>>
       ELSE IF ~NeedsResource(config, "Vpc")
       THEN /\ outcome = "ok"
            /\ drv' = [drv EXCEPT !.vpc = TRUE]
            /\ pc' = "gateway"
            /\ lastCall' = NoCall
            /\ UNCHANGED <<file, config, h>>
       ELSE /\ lastCall' = Call("create", "Vpc")
            /\ \/ /\ outcome = "fail"
                  /\ SetupRaises(NoteShared(h, "Vpc"))
                  /\ UNCHANGED <<file, config, drv>>
               \/ /\ outcome = "late"
                  /\ SetupRaises(NoteMade(h, "Vpc"))
                  /\ drv' = [drv EXCEPT !.vpc = TRUE]
                  /\ UNCHANGED <<file, config>>
               \/ /\ outcome = "ok"
                  /\ config' = Recorded(config, "Vpc")
                  /\ file' = WriteConfig(config')
                  /\ drv' = [drv EXCEPT !.vpc = TRUE]
                  /\ h' = NoteMade(h, "Vpc")
                  /\ pc' = "gateway"
    /\ UNCHANGED <<op, names, idx, sub, tries, result, capture, cloud>>

\* the config and the state file once the create call for kind has returned or
\* raised: the key is set and written on the lines that follow the call, which
\* an error raised by the call never reaches
WrittenBeforeCall(f, cfg, kind, outcome) ==
    [config |-> Recorded(cfg, kind), file |-> WriteConfig(Recorded(cfg, kind))]

AfterCreateCall(f, cfg, kind, outcome) ==
    IF outcome = "fail"
    THEN [config |-> cfg, file |-> f]
    ELSE [config |-> Recorded(cfg, kind), file |-> WriteConfig(Recorded(cfg, kind))]

\* a resource of _configure_path_to_internet that is created when its key is
\* missing: the create call, the key, the write, then the calls configuring it
EnsureResource(kind, here, next, outcome) ==
    /\ pc = here
    /\ IF ~NeedsResource(config, kind)
       THEN /\ outcome = "ok"
            /\ pc' = next
            /\ lastCall' = NoCall
            /\ UNCHANGED <<file, config, h, cloud>>
       ELSE /\ lastCall' = Call("create", kind)
            /\ config' = AfterCreateCall(file, config, kind, outcome).config
            /\ file' = AfterCreateCall(file, config, kind, outcome).file
            /\ \/ /\ outcome = "fail"
                  /\ SetupRaises(NoteShared(h, kind))
               \/ /\ outcome = "late"
                  /\ SetupRaises(NoteMade(h, kind))
               \/ /\ outcome = "ok"
                  /\ h' = NoteMade(h, kind)
                  /\ pc' = next
            /\ cloud' = IF outcome = "ok" THEN Configured(cloud, kind) ELSE cloud
    /\ UNCHANGED <<drv, op, names, idx, sub, tries, result, capture>>

\* a call of _configure_path_to_internet that is made on every run
ConfigureCall(what, kind, here, next, outcome) ==
    /\ pc = here
    /\ lastCall' = Call(what, kind)
    /\ \/ /\ outcome = "fail"
          /\ SetupRaises(NoteShared(h, kind))
       \/ /\ outcome = "ok"
          /\ h' = NoteShared(h, kind)
          /\ pc' = next
    /\ UNCHANGED <<file, config, drv, op, names, idx, sub, tries, result, capture, cloud>>

EnsureGateway(outcome) == EnsureResource("InternetGateway", "gateway", "route_table", outcome)

EnsureRouteTable(outcome) == EnsureResource("RouteTable", "route_table", "route", outcome)

CreateRoute(outcome) == ConfigureCall("create_route", "RouteTable", "route", "subnet", outcome)

EnsureSubnet(outcome) == EnsureResource("Subnet", "subnet", "associate", outcome)

AssociateSubnet(outcome) ==
    ConfigureCall("associate_with_subnet", "RouteTable", "associate", "security_group", outcome)

\* the last step of the setup: create_nodes goes on to its loop
EnsureSecurityGroup(outcome) == EnsureResource("SecurityGroup", "security_group", "loop", outcome)

---------------------------------------------------------------------------
(* destroy_resources and the drivers' _destroy_resources *)

\* [names for names, data in self.get_provider_hosts()]
ProviderHosts(cfg, kind) ==
    {cfg.instances[i]["name"] : i \in {j \in 1..Len(cfg.instances) : cfg.instances[j]["provider"] = kind}}

\* node_names = [s for s in node_names if s in (the provider's hosts)]
OwnedNamesAnyProvider(cfg, kind, node_names) == node_names \cap InstanceNames(cfg)

OwnedNames(cfg, kind, node_names) == node_names \cap ProviderHosts(cfg, kind)

\* existing_instances: the entries whose key is among node_names, in the dict's order
ExistingInstances(cfg, node_names) ==
    LET kept == SelectSeq(cfg.instances, LAMBDA e : e["name"] \in node_names)
    IN  [i \in 1..Len(kept) |-> kept[i]["name"]]

\* AWS: if node_names and not node_name in node_name: continue
\* (a string always contains itself, so no entry is skipped)
SkippedAWS(node_names, node_name) == node_names # {} /\ ~(node_name = node_name)

\* DigitalOcean: if node_names and not node_name in node_names: continue
SkippedDO(node_names, node_name) == node_names # {} /\ node_name \notin node_names

Skipped(kind, node_names, node_name) ==
    IF kind = "aws" THEN SkippedAWS(node_names, node_name) ELSE SkippedDO(node_names, node_name)

\* if not len(self.get_provider_hosts())
NoProviderHostsUnchecked(cfg, kind) == TRUE

NoProviderHosts(cfg, kind) == ProviderHosts(cfg, kind) = {}

\* nothing of the provider is left in the state file
Clean(f, kind) ==
    /\ ProviderHosts(f.cfg, kind) = {}
    /\ kind = "aws" => \A k \in SharedKinds : Missing(f.cfg, k)

DestroyMode ==
    IF h.prev.what = "destroyed_clean" /\ h.prev.kind = drv.kind THEN "again"
    ELSE IF h.prev.what = "destroy_stopped" /\ h.prev.kind = drv.kind THEN "resumed"
    ELSE "plain"

\* while self.config.get(subresource) and tries < 10
Retrying(cfg, kind, t) == Truthy(cfg[kind]) /\ t < TRIES_LIMIT

\* if tries > 10
GivesUp(t) == t > GIVE_UP_ABOVE

\* a place in destroy_resources: before a provider call, or at its return
Place(p, s, t, value) == [pc |-> p, sub |-> s, tries |-> t, result |-> value]

\* where _destroy_resources stands once the subresources are dealt with: before
\* the first call of the gateway, network and keypair steps whose key is set
AfterSubresources(cfg) ==
    IF ~Missing(cfg, "InternetGateway") THEN Place("gateway_del", 1, 0, None)
    ELSE IF ~Missing(cfg, "Vpc") THEN Place("vpc_del", 1, 0, None)
    ELSE IF ~Missing(cfg, "keypair") THEN Place("keypair_del", 1, 0, None)
    ELSE Place("done", 1, 0, "True")

\* where the for loop over the subresources stands, from the test of the while
\* loop of subresource s with tries = t on
RECURSIVE TeardownFrom(_, _, _)
TeardownFrom(cfg, s, t) ==
    IF s > Len(SubResources) THEN AfterSubresources(cfg)
    ELSE IF Retrying(cfg, SubResources[s], t) THEN Place("sub", s, t, None)
    ELSE IF GivesUp(t) THEN Place("done", s, t, "False")
    ELSE TeardownFrom(cfg, s + 1, 0)

\* where _destroy_resources stands after its loop over existing_instances
AfterInstances(cfg, kind) ==
    IF kind = "aws" /\ NoProviderHosts(cfg, kind)
    THEN TeardownFrom(cfg, 1, 0)
    ELSE Place("done", 1, 0, "True")

\* where _destroy_resources stands in its loop over existing_instances
InstancesFrom(cfg, kind, q, i) ==
    IF i <= Len(q) THEN Place("terminate", 1, 0, None) ELSE AfterInstances(cfg, kind)

\* the operation goes on to place; at its return the history keeps what it left
Goto(place, hh, f) ==
    /\ pc' = place.pc
    /\ sub' = place.sub
    /\ tries' = place.tries
    /\ result' = place.result
    /\ h' = IF place.pc # "done" THEN hh
            ELSE [hh EXCEPT !.prev =
                    IF Clean(f, drv.kind) /\ (hh.terminated # {} \/ hh.touched # {})
                    THEN [what |-> "destroyed_clean", names |-> hh.requested, kind |-> drv.kind]
                    ELSE NoPrev]

DestroyRaises(hh) ==
    /\ pc' = "raised"
    /\ h' = [hh EXCEPT !.prev =
                IF hh.terminated # {} \/ hh.touched # {}
                THEN [what |-> "destroy_stopped", names |-> {}, kind |-> drv.kind]
                ELSE NoPrev]

\* destroy_resources(node_names), up to its first provider call; AWS reads
\* self.ec2Resource and self.config['Vpc'] before the loop over existing_instances
StartDestroy(node_names) ==
    /\ Usable
    /\ drv.kind \in {"aws", "digitalocean"}
    /\ op' = "destroy"
    /\ idx' = 1
    /\ lastCall' = NoCall
    /\ LET hh == StartHistory(DestroyMode, node_names)
           owned == OwnedNames(config, drv.kind, node_names)
           q == ExistingInstances(config, owned)
       IN  IF \/ ~config.hasInstances
              \/ drv.kind = "aws" /\ (~drv.session \/ Missing(config, "Vpc"))
           THEN /\ DestroyRaises(hh)
                /\ names' = <<>>
                /\ UNCHANGED <<sub, tries, result>>
           ELSE /\ names' = q
                /\ Goto(InstancesFrom(config, drv.kind, q, 1), hh, file)
    /\ UNCHANGED <<file, config, drv, capture, cloud>>

\* the self._write_config() that follows each del self.config['instances'][node_name]
PersistDeletionNever(f, cfg) == f

PersistDeletion(f, cfg) == WriteConfig(cfg)

\* one round of the loop over existing_instances: the terminate call and, when
\* it succeeded, the del and the write
Terminate(outcome) ==
    /\ pc = "terminate"
    /\ LET n == names[idx]
           e == InstanceOf(config, n)
           hh == [h EXCEPT !.terminated = @ \cup {n}, !.anyCall = TRUE]
       IN  IF Skipped(drv.kind, Range(names), n)
           THEN /\ outcome = "ok"
                /\ idx' = idx + 1
                /\ lastCall' = NoCall
                /\ Goto(InstancesFrom(config, drv.kind, names, idx + 1), h, file)
                /\ UNCHANGED <<file, config>>
           ELSE IF e["InstanceId"] = None
           THEN /\ outcome = "fail"
                /\ DestroyRaises(h)
                /\ lastCall' = NoCall
                /\ UNCHANGED <<file, config, idx, sub, tries, result>>
           ELSE /\ lastCall' = Call("terminate", n)
                /\ \/ /\ outcome = "fail"
                      /\ DestroyRaises(hh)
                      /\ UNCHANGED <<file, config, idx, sub, tries, result>>
                   \/ /\ outcome = "ok"
                      /\ config' = DelInstance(config, n)
                      /\ file' = PersistDeletion(file, config')
                      /\ idx' = idx + 1
                      /\ Goto(InstancesFrom(config', drv.kind, names, idx + 1), hh, file')
    /\ UNCHANGED <<drv, op, names, capture, cloud>>

\* one round of the while loop for a subresource: the delete call, then the del
\* and the write, or the ClientError that is caught and counted
DeleteSubresource(outcome) ==
    /\ pc = "sub"
    /\ lastCall' = Call("delete", SubResources[sub])
    /\ \/ /\ outcome = "ok"
          /\ config' = [config EXCEPT ![SubResources[sub]] = None]
          /\ file' = WriteConfig(config')
          /\ cloud' = Removed(cloud, SubResources[sub])
          /\ Goto(TeardownFrom(config', sub, tries), NoteShared(h, SubResources[sub]), file')
       \/ /\ outcome = "fail"
          /\ Goto(TeardownFrom(config, sub, tries + 1),
                  [NoteShared(h, SubResources[sub]) EXCEPT
                      !.exhausted = @ \/ ~Retrying(config, SubResources[sub], tries + 1)],
                  file)
          /\ UNCHANGED <<file, config, cloud>>
    /\ UNCHANGED <<drv, op, names, idx, capture>>

\* detach_from_vpc, delete, del, write for the gateway; "fail" is the detaching
\* raising, "late" the deleting
DeleteGateway(outcome) ==
    /\ pc = "gateway_del"
    /\ \/ /\ outcome = "fail"
          /\ lastCall' = Call("detach", "InternetGateway")
          /\ DestroyRaises(NoteShared(h, "InternetGateway"))
          /\ UNCHANGED <<file, config, sub, tries, result, cloud>>
       \/ /\ outcome = "late"
          /\ lastCall' = Call("delete", "InternetGateway")
          /\ cloud' = Removed(cloud, "InternetGateway")
          /\ DestroyRaises(NoteShared(h, "InternetGateway"))
          /\ UNCHANGED <<file, config, sub, tries, result>>
       \/ /\ outcome = "ok"
          /\ lastCall' = Call("delete", "InternetGateway")
          /\ cloud' = Removed(cloud, "InternetGateway")
          /\ config' = [config EXCEPT !["InternetGateway"] = None]
          /\ file' = WriteConfig(config')
          /\ Goto(AfterSubresources(config'), NoteShared(h, "InternetGateway"), file')
    /\ UNCHANGED <<drv, op, names, idx, capture>>

\* vpc.delete(), del, write
DeleteVpc(outcome) ==
    /\ pc = "vpc_del"
    /\ lastCall' = Call("delete", "Vpc")
    /\ \/ /\ outcome = "fail"
          /\ DestroyRaises(NoteShared(h, "Vpc"))
          /\ UNCHANGED <<file, config, sub, tries, result>>
       \/ /\ outcome = "ok"
          /\ config' = [config EXCEPT !["Vpc"] = None]
          /\ file' = WriteConfig(config')
          /\ Goto(AfterSubresources(config'), NoteShared(h, "Vpc"), file')
    /\ UNCHANGED <<drv, op, names, idx, capture, cloud>>

\* delete_key_pair, del, os.remove, del, write, return True; "late" is
\* os.remove raising
DeleteKeypair(outcome) ==
    /\ pc = "keypair_del"
    /\ lastCall' = Call("delete", "keypair")
    /\ \/ /\ outcome = "fail"
          /\ DestroyRaises(NoteShared(h, "keypair"))
          /\ UNCHANGED <<file, config, sub, tries, result>>
       \/ /\ outcome = "late"
          /\ config' = [config EXCEPT !["keypair"] = None]
          /\ DestroyRaises(NoteShared(h, "keypair"))
          /\ UNCHANGED <<file, sub, tries, result>>
       \/ /\ outcome = "ok"
          /\ config' = [config EXCEPT !["keypair"] = None, !["keypair_path"] = None]
          /\ file' = WriteConfig(config')
          /\ Goto(AfterSubresources(config'), NoteShared(h, "keypair"), file')
    /\ UNCHANGED <<drv, op, names, idx, capture, cloud>>

---------------------------------------------------------------------------
(* The commands that create and destroy cloud nodes *)

Outcomes == {"ok", "fail", "late"}

NoOptions ==
    [blockchain_provider |-> None, nucypher_image |-> None, seed_network |-> "False",
     sentry_dsn |-> None, profile |-> None, gas_strategy |-> None,
     prometheus |-> "False", stakeholder_config_path |-> None]

\* the environment of a user whose credentials are in place
GoodEnv == [token |-> "token", region |-> None, sshkey |-> "fingerprint", profiles |-> {"p1"}]

\* the options of cloudworkers up / create, the stakeholder files aside
CloudOptions ==
    {[NoOptions EXCEPT !.seed_network = s, !.profile = "p1"] : s \in {"True", "False"}}

\* cloudworkers up / create / destroy on a fleet whose commands are all given
\* the same --seed-network
ConstructCloud ==
    \E kind \in {"aws", "digitalocean"}, in \in CloudOptions, callOk \in BOOLEAN :
        /\ file.exists => in.seed_network = file.cfg["seed_network"]
        /\ Construct(kind, in, GoodEnv, "secret1", "secret2", callOk)

Next ==
    \/ ConstructCloud
    \/ \E q \in NameSeqs : StartCreate(q)
    \/ \E o \in Outcomes : EnsureVpc(o)
    \/ \E o \in Outcomes : EnsureGateway(o)
    \/ \E o \in Outcomes : EnsureRouteTable(o)
    \/ \E o \in Outcomes : CreateRoute(o)
    \/ \E o \in Outcomes : EnsureSubnet(o)
    \/ \E o \in Outcomes : AssociateSubnet(o)
    \/ \E o \in Outcomes : EnsureSecurityGroup(o)
    \/ CreateSkip
    \/ \E o \in Outcomes : CreateNodeAWS(o)
    \/ \E o \in Outcomes : CreateNodeDO(o)
    \/ DropletActive
    \/ \E N \in SUBSET Names : StartDestroy(N)
    \/ \E o \in Outcomes : Terminate(o)
    \/ \E o \in Outcomes : DeleteSubresource(o)
    \/ \E o \in Outcomes : DeleteGateway(o)
    \/ \E o \in Outcomes : DeleteVpc(o)
    \/ \E o \in Outcomes : DeleteKeypair(o)

Spec == Init /\ [][Next]_vars

---------------------------------------------------------------------------
(* GenericConfigurator.create_nodes *)

\* the entry create_nodes stores for node_name: the one it has, or a new one,
\* with the address, the provider and the login attributes set
GenericNodeData(cfg, n, host_address) ==
    LET node_data == IF HasInstance(cfg, n) THEN InstanceOf(cfg, n) ELSE NewInstance(n)
    IN  [node_data EXCEPT !["publicaddress"] = host_address,
                          !["provider"] = "generic",
                          !["provider_deploy_attrs"] = "key_path"]

\* the loop of GenericConfigurator.create_nodes from the i-th name on
RECURSIVE GenericLoop(_, _, _, _)
GenericLoop(cfg, q, i, host_address) ==
    IF i > Len(q)
    THEN cfg
    ELSE GenericLoop(SeedFromNode(PutInstance(cfg, GenericNodeData(cfg, q[i], host_address)),
                                  host_address),
                     q, i + 1, host_address)

\* cloudworkers add / add-for-stakes: every name gets the one host_address
GenericCreate(q, host_address) ==
    /\ Usable
    /\ drv.kind = "generic"
    /\ LET c1 == GenericLoop(InitInstances(config), q, 1, host_address)
       IN  /\ config' = c1
           /\ file' = IF Len(q) > 0 THEN WriteConfig(c1) ELSE file
           /\ drv' = [drv EXCEPT !.created_new_nodes = (@ \/ Len(q) > 0)]
    /\ op' = "add"
    /\ names' = q
    /\ pc' = "done"
    /\ h' = StartHistory("plain", Range(q))
    /\ lastCall' = NoCall
    /\ UNCHANGED <<idx, sub, tries, result, capture, cloud>>

---------------------------------------------------------------------------
(* deploy_nucypher_on_existing_nodes and update_nucypher_on_existing_nodes *)

\* the value the loop over host_level_overrides leaves in a node's entry
OverrideValuePersistedFirst(supplied, prior, fleet) ==
    IF Truthy(prior) THEN prior
    ELSE IF Truthy(supplied) THEN supplied
    ELSE fleet

OverrideValue(supplied, prior, fleet) ==
    IF Truthy(supplied) THEN supplied
    ELSE IF ~Truthy(prior) THEN fleet
    ELSE prior

\* for k, input_specified_value in self.host_level_overrides.items():
\*     for node_name in node_names: ...
ApplyOverrides(cfg, overrides, node_names) ==
    [cfg EXCEPT !.instances =
        [i \in 1..Len(cfg.instances) |->
            LET e == cfg.instances[i]
            IN  IF e["name"] \in node_names
                THEN [k \in DOMAIN e |->
                        IF k \in OverrideKeys
                        THEN OverrideValue(overrides[k], e[k], cfg[k])
                        ELSE e[k]]
                ELSE e]]

\* if self.config.get('seed_network') is True and not self.config.get('seed_node')
NeedsSeedNode(cfg) == cfg["seed_network"] = "True" /\ ~Truthy(cfg["seed_node"])

\* self.config['seed_node'] = list(self.config['instances'].values())[0]['publicaddress']
SeedFromFirst(cfg) ==
    IF NeedsSeedNode(cfg)
    THEN [cfg EXCEPT !["seed_node"] = cfg.instances[1]["publicaddress"]]
    ELSE cfg

\* the part before the playbook raises: KeyError on config['instances'] (in the
\* loop, at the seed node or in generate_ansible_inventory), IndexError on [0]
PreludeRaises(cfg) ==
    \/ ~cfg.hasInstances
    \/ NeedsSeedNode(cfg) /\ Len(cfg.instances) = 0

\* both methods up to executor.run(): overrides, seed node, inventory and write;
\* cloudworkers deploy and update run them on a generic driver
BeforePlaybook(what, q) ==
    /\ Usable
    /\ drv.kind = "generic"
    /\ op' = what
    /\ names' = q
    /\ h' = StartHistory("plain", Range(q))
    /\ lastCall' = NoCall
    /\ IF PreludeRaises(config)
       THEN /\ pc' = "raised"
            /\ UNCHANGED <<config, file>>
       ELSE LET c1 == SeedFromFirst(ApplyOverrides(config, drv.host_level_overrides, Range(q)))
            IN  /\ pc' = "playbook"
                /\ config' = c1
                /\ file' = WriteConfig(c1)
    /\ UNCHANGED <<drv, idx, sub, tries, result, capture, cloud>>

DeployBegin(q) == BeforePlaybook("deploy", q)

UpdateBegin(q) == BeforePlaybook("update", q)

---------------------------------------------------------------------------
(* AnsiblePlayBookResultsCollector.v2_runner_on_ok *)

\* the keys of output_capture, in the order the dict was written
LabelOrder == <<"worker address", "rest url", "nucypher version", "nickname">>

\* a task's msg is a sequence of lines "<label>: <data>"; a line whose label is
\* no key of output_capture matches no pattern
MsgLabels == {"nucypher version", "nickname", "other"}
Values == {"v1", "v2"}
Lines == [label : MsgLabels, data : Values]
Msgs == UNION {[1..n -> Lines] : n \in 1..MaxLines}

\* re.search(fr'{k}:\s*(?P<data>.*)', msg): the first line that carries the label
Matches(k, msg) == \E i \in 1..Len(msg) : msg[i].label = k

FirstMatch(k, msg) ==
    msg[CHOOSE i \in 1..Len(msg) :
            /\ msg[i].label = k
            /\ \A j \in 1..(i - 1) : msg[j].label # k].data

\* self.results[k].append((result._host.name, data)) for every key that matches
Collect(results, host, msg) ==
    [k \in Labels |->
        IF Matches(k, msg)
        THEN Append(results[k], <<host, FirstMatch(k, msg)>>)
        ELSE results[k]]

Captured(results) == Len(results["worker address"]) + Len(results["rest url"])
                        + Len(results["nucypher version"]) + Len(results["nickname"])

\* the playbook reports a task that went well on a host
RunnerOnOk(host, msg) ==
    /\ pc = "playbook"
    /\ Captured(Collect(capture, host, msg)) <= MaxCaptured
    /\ capture' = Collect(capture, host, msg)
    /\ lastCall' = NoCall
    /\ UNCHANGED <<file, config, drv, pc, op, names, idx, sub, tries, result, cloud, h>>

---------------------------------------------------------------------------
(* update_captured_instance_data *)

\* instances_by_public_address: the dict comprehension keeps, for an address,
\* the entry that comes last; the model names the entry by its position
HasAddress(cfg, address) ==
    \E i \in 1..Len(cfg.instances) : cfg.instances[i]["publicaddress"] = address

ByPublicAddress(cfg, address) ==
    CHOOSE i \in 1..Len(cfg.instances) :
        /\ cfg.instances[i]["publicaddress"] = address
        /\ \A j \in (i + 1)..Len(cfg.instances) : cfg.instances[j]["publicaddress"] # address

\* instances_by_public_address[instance_address][k] = value
StoreCapturedIfUnset(e, k, value) == IF Truthy(e[k]) THEN e ELSE [e EXCEPT ![k] = value]

StoreCaptured(e, k, value) == [e EXCEPT ![k] = value]

\* the two loops over results, from the j-th pair of the i-th key on; by maps an
\* address to the position of its entry, and the entries are those of the config
\* itself, so the values land in cfg; an unknown address raises KeyError
RECURSIVE StoreAll(_, _, _, _, _)
StoreAll(cfg, by, results, i, j) ==
    IF i > Len(LabelOrder)
    THEN [raised |-> FALSE, cfg |-> cfg]
    ELSE IF j > Len(results[LabelOrder[i]])
    THEN StoreAll(cfg, by, results, i + 1, 1)
    ELSE LET pair == results[LabelOrder[i]][j]
         IN  IF by[pair[1]] = 0
             THEN [raised |-> TRUE, cfg |-> cfg]
             ELSE StoreAll([cfg EXCEPT !.instances[by[pair[1]]] =
                                StoreCaptured(@, LabelOrder[i], pair[2])],
                           by, results, i, j + 1)

AddressIndex(cfg) ==
    [a \in Addresses |-> IF HasAddress(cfg, a) THEN ByPublicAddress(cfg, a) ELSE 0]

\* for k, v in self.config['instances'].items(): every entry becomes the entry
\* the dict holds for its address (under its own key)
ShareByAddress(cfg, by) ==
    [cfg EXCEPT !.instances =
        [i \in 1..Len(cfg.instances) |->
            [cfg.instances[by[cfg.instances[i]["publicaddress"]]]
                EXCEPT !["name"] = cfg.instances[i]["name"]]]]

\* executor.run() has returned: update_captured_instance_data, then the hints
FinishPlaybook ==
    /\ pc = "playbook"
    /\ LET by == AddressIndex(config)
           stored == StoreAll(config, by, capture, 1, 1)
       IN  IF stored.raised
           THEN /\ pc' = "raised"
                /\ config' = stored.cfg
                /\ UNCHANGED file
           ELSE /\ pc' = "done"
                /\ config' = ShareByAddress(stored.cfg, by)
                /\ file' = WriteConfig(ShareByAddress(stored.cfg, by))
    /\ lastCall' = NoCall
    /\ UNCHANGED <<drv, op, names, idx, sub, tries, result, capture, cloud, h>>

---------------------------------------------------------------------------
(* The commands that add hosts and deploy to them *)

OptionValues == {None, "x1"}

\* the options of cloudworkers deploy / update; add passes none of them
GenericOptions ==
    [blockchain_provider : OptionValues, nucypher_image : OptionValues,
     seed_network : {"True", "False"}, sentry_dsn : OptionValues,
     profile : {None}, gas_strategy : OptionValues, prometheus : {"False"},
     stakeholder_config_path : {None}]

\* a command on the generic driver, the MaxRuns first ones of a behaviour
ConstructGeneric(options) ==
    \E in \in options :
        /\ h.runs < MaxRuns
        /\ Construct("generic", in, GoodEnv, "secret1", "secret2", TRUE)

\* the first command of a namespace is cloudworkers up on a cloud driver, here
\* with no stake to make a node for: it leaves the state file
ConstructNamespace ==
    \E in \in CloudOptions :
        /\ ~file.exists
        /\ Construct("digitalocean", in, GoodEnv, "secret1", "secret2", TRUE)

NoNodes == StartCreate(<<>>)

\* the addresses cloudworkers add is given
HostAddresses == {AddressOf(i) : i \in 1..MaxHosts}

\* list(deployer.config['instances'].keys()), the node_names of cloudworkers deploy
InstanceKeySeq(cfg) == [i \in 1..Len(cfg.instances) |-> cfg.instances[i]["name"]]

\* add, deploy and update with their options, on playbooks whose output the
\* collector keeps nothing of
NextDeploy ==
    \/ ConstructNamespace
    \/ NoNodes
    \/ CreateSkip
    \/ ConstructGeneric(GenericOptions)
    \/ \E q \in NameSeqs, a \in HostAddresses : GenericCreate(q, a)
    \/ \E q \in NameSeqs : DeployBegin(q)
    \/ \E q \in NameSeqs : UpdateBegin(q)
    \/ FinishPlaybook

SpecDeploy == Init /\ [][NextDeploy]_vars

\* add and deploy without options, the playbook reporting to the collector
NextCollect ==
    \/ ConstructNamespace
    \/ NoNodes
    \/ CreateSkip
    \/ ConstructGeneric({NoOptions})
    \/ \E q \in NameSeqs, a \in HostAddresses : GenericCreate(q, a)
    \/ DeployBegin(InstanceKeySeq(config))
    \/ \E a \in Addresses, msg \in Msgs : RunnerOnOk(a, msg)
    \/ FinishPlaybook

SpecCollect == Init /\ [][NextCollect]_vars

---------------------------------------------------------------------------
(* Properties of create_nodes and destroy_resources *)

SameEntry(f, g, n) ==
    /\ HasInstance(f.cfg, n)
    /\ HasInstance(g.cfg, n)
    /\ InstanceOf(f.cfg, n) = InstanceOf(g.cfg, n)

\* C1: a create_nodes that repeats, on the same node names, the create_nodes
\* completed just before it issues no instance-creation call, and the entries of
\* those names in the state file stay what they were when it started.
C1_IdempotentConvergence ==
    (op = "create" /\ h.mode = "repeat") =>
        /\ h.created = {}
        /\ \A n \in h.requested : SameEntry(file, h.snap, n)

C1_Witness ==
    /\ op = "create"
    /\ h.mode = "repeat"
    /\ pc = "done"
    /\ Cardinality(h.requested) = 2

\* C2: when create_new_node fails for the k-th name of a batch, the entries of
\* the names before it are in the state file; and the create_nodes that follows
\* with the same names issues creation calls only for names that had no entry
\* in the state file when it started.
C2_PartialFailureResumable ==
    /\ (op = "create" /\ pc = "raised" /\ h.failedAt > 0) =>
            \A i \in 1..(h.failedAt - 1) : HasInstance(file.cfg, names[i])
    /\ (op = "create" /\ h.mode = "resume") =>
            h.created \subseteq (h.requested \ InstanceNames(h.snap.cfg))

C2_Witness ==
    /\ op = "create"
    /\ h.mode = "resume"
    /\ pc = "done"
    /\ h.created # {}
    /\ h.created # h.requested

IsSharedDelete(c) == c.op \in {"delete", "detach"} /\ c.target \in SharedKinds

\* C3: a delete (or detach) call for a shared resource is issued only when no
\* entry of the driver's provider is left in the instances of the state file.
C3_TeardownOrdering ==
    IsSharedDelete(lastCall) => ProviderHosts(file.cfg, drv.kind) = {}

C3_Witness ==
    /\ lastCall = Call("delete", "Subnet")
    /\ Len(file.cfg.instances) > 0

\* C4: a subresource deletion is tried at most TRIES_LIMIT times, and once one
\* has failed on every try the teardown has stopped and returned False.
C4_BoundedRetryStops ==
    /\ tries <= TRIES_LIMIT
    /\ (op = "destroy" /\ h.exhausted) => (pc = "done" /\ result = "False")

\* C5: the gateway is deleted only with subnet, route table and security group
\* absent from the state file, the network only with the gateway absent, the
\* keypair only with the network absent.
C5_ReverseDependencyOrder ==
    /\ lastCall = Call("delete", "InternetGateway") =>
            \A k \in {"Subnet", "RouteTable", "SecurityGroup"} : Missing(file.cfg, k)
    /\ lastCall = Call("delete", "Vpc") => Missing(file.cfg, "InternetGateway")
    /\ lastCall = Call("delete", "keypair") => Missing(file.cfg, "Vpc")

\* C8: from no state file, create_nodes on <<w1, w2>> that completes has created
\* each prerequisite of the driver once, the state file holds exactly the entries
\* of w1 and w2, and seed_node is w1's public address when seed_network is set
\* and absent when it is not.
C8_FirstBatch ==
    (op = "create" /\ pc = "done" /\ h.fromEmpty /\ names = <<"w1", "w2">>) =>
        /\ \A k \in Prerequisites : h.made[k] = IF drv.kind = "aws" THEN 1 ELSE 0
        /\ Len(file.cfg.instances) = 2
        /\ InstanceNames(file.cfg) = {"w1", "w2"}
        /\ IF Truthy(file.cfg["seed_network"])
           THEN file.cfg["seed_node"] = InstanceOf(file.cfg, "w1")["publicaddress"]
           ELSE file.cfg["seed_node"] = None

C8_Witness ==
    /\ op = "create"
    /\ pc = "done"
    /\ h.fromEmpty
    /\ names = <<"w1", "w2">>
    /\ drv.kind = "aws"
    /\ file.cfg["seed_network"] = "True"

\* C9: destroy_resources issues terminate calls only for requested names that
\* the driver's provider owns; the entries of names not requested and of other
\* providers stay as they were; and while an entry of the driver's provider
\* remains no call on a shared resource has been issued.
C9_SelectiveDestroy ==
    op = "destroy" =>
        /\ h.terminated \subseteq (h.requested \cap ProviderHosts(h.snap.cfg, drv.kind))
        /\ \A n \in InstanceNames(h.snap.cfg) :
                (n \notin h.requested \/ InstanceOf(h.snap.cfg, n)["provider"] # drv.kind)
                    => SameEntry(file, h.snap, n)
        /\ ProviderHosts(file.cfg, drv.kind) # {} => h.touched = {}

C9_Witness ==
    /\ op = "destroy"
    /\ pc = "done"
    /\ h.requested = {"w1"}
    /\ h.terminated = {"w1"}
    /\ HasInstance(file.cfg, "w2")
    /\ InstanceOf(file.cfg, "w2")["provider"] = drv.kind

\* C10: a destroy_resources that follows one which left nothing of the provider
\* (no instance, no shared resource) does not raise, issues no provider call and
\* leaves the state file as it was.
C10_IdempotentTeardown ==
    (op = "destroy" /\ h.mode = "again") =>
        /\ pc # "raised"
        /\ ~h.anyCall
        /\ file = h.snap

---------------------------------------------------------------------------
(* Properties of the merge of captured values and of the per-host overrides *)

Deploying == op \in {"deploy", "update"}

\* the pairs of results[k] that were reported by the host at address
CapturedFor(results, k, address) == SelectSeq(results[k], LAMBDA t : t[1] = address)

\* C6 as stated: once update_captured_instance_data has returned, every
\* captured triple's value is stored under its label in every entry whose
\* publicaddress is the triple's address, and the state file holds the result.
C6_EveryTripleStored ==
    (Deploying /\ pc = "done") =>
        /\ file.cfg = config
        /\ \A k \in Labels : \A j \in 1..Len(capture[k]) :
             \A i \in 1..Len(file.cfg.instances) :
                file.cfg.instances[i]["publicaddress"] = capture[k][j][1]
                    => file.cfg.instances[i][k] = capture[k][j][2]

\* C6 (amended): once update_captured_instance_data has returned, the state
\* file holds the config, and every entry holds under every label the value of
\* the last triple captured for the entry's own address and that label; with no
\* such triple it holds what the entry kept for that address held before, so no
\* entry receives a value captured for another address.
C6_AddressKeyedMerge ==
    (Deploying /\ pc = "done") =>
        /\ file.cfg = config
        /\ \A i \in 1..Len(file.cfg.instances) : \A k \in Labels :
             LET address == file.cfg.instances[i]["publicaddress"]
                 own == CapturedFor(capture, k, address)
                 before == h.snap.cfg.instances[ByPublicAddress(h.snap.cfg, address)]
             IN  file.cfg.instances[i][k] =
                    IF Len(own) > 0 THEN own[Len(own)][2] ELSE before[k]

C6_Witness ==
    /\ op = "deploy"
    /\ pc = "done"
    /\ Len(file.cfg.instances) = 2
    /\ capture["nucypher version"] = <<<<file.cfg.instances[1]["publicaddress"], "v1">>>>
    /\ capture["nickname"] = <<<<file.cfg.instances[2]["publicaddress"], "v2">>>>
    /\ file.cfg.instances[1]["publicaddress"] # file.cfg.instances[2]["publicaddress"]
    /\ file.cfg.instances[1]["nickname"] = None
    /\ file.cfg.instances[2]["nucypher version"] = None

\* C7: when the loop over host_level_overrides is done, every node of node_names
\* that has an entry holds, for each of the four override keys, the value given
\* to this invocation (gas_strategy in its command-line form) when one was
\* given, else the value its entry held when the operation began when it held
\* one, else the fleet-wide value of the config.
C7_OverridePrecedence ==
    (Deploying /\ pc = "playbook") =>
        \A n \in Range(names) \cap InstanceNames(h.snap.cfg) : \A k \in OverrideKeys :
            LET supplied == drv.host_level_overrides[k]
                persisted == InstanceOf(h.snap.cfg, n)[k]
            IN  InstanceOf(file.cfg, n)[k] =
                    IF Truthy(supplied) THEN supplied
                    ELSE IF Truthy(persisted) THEN persisted
                    ELSE h.snap.cfg[k]

\* one node and three keys: a value given over a persisted one, a persisted one
\* over a different fleet-wide one, and the fleet-wide one for lack of both
C7_Witness ==
    /\ Deploying
    /\ pc = "playbook"
    /\ \E n \in Range(names) \cap InstanceNames(h.snap.cfg) :
        \E k1, k2, k3 \in OverrideKeys :
            /\ Truthy(drv.host_level_overrides[k1])
            /\ Truthy(InstanceOf(h.snap.cfg, n)[k1])
            /\ InstanceOf(h.snap.cfg, n)[k1] # drv.host_level_overrides[k1]
            /\ ~Truthy(drv.host_level_overrides[k2])
            /\ Truthy(InstanceOf(h.snap.cfg, n)[k2])
            /\ InstanceOf(h.snap.cfg, n)[k2] # h.snap.cfg[k2]
            /\ ~Truthy(drv.host_level_overrides[k3])
            /\ ~Truthy(InstanceOf(h.snap.cfg, n)[k3])
            /\ InstanceOf(file.cfg, n)[k3] = h.snap.cfg[k3]

---------------------------------------------------------------------------
(* Properties of errors raised while nodes are created and destroyed *)

\* the names of the batch that follow position i and have no entry yet
LeftAfter(q, i, cfg) == {q[j] : j \in {k \in (i + 1)..Len(q) : ~HasInstance(cfg, q[k])}}

\* C11 as stated: when the creation call fails for one node of a batch,
\* create_nodes still issues the creation call for every remaining name of the
\* batch that has no entry, and the entries of the nodes created before the
\* failure are in the state file.
C11_CreationErrorsIsolated ==
    (op = "create" /\ pc = "raised" /\ h.failedAt > 0) =>
        /\ LeftAfter(names, h.failedAt, config) \subseteq h.created
        /\ \A i \in 1..(h.failedAt - 1) : HasInstance(file.cfg, names[i])

\* C12 as stated: when the terminate call fails for one named instance,
\* destroy_resources still issues the terminate call for every other named
\* instance of the batch instead of ending there.
C12_DestructionErrorsIsolated ==
    (op = "destroy" /\ pc = "raised" /\ lastCall.op = "terminate") =>
        Range(names) \subseteq h.terminated

\* the names whose terminate call has returned: those a call was issued for,
\* less the one whose call raised
TerminatedOk ==
    IF pc = "raised" /\ lastCall.op = "terminate"
    THEN h.terminated \ {names[idx]}
    ELSE h.terminated

\* C13: at every point of destroy_resources, and so where a terminate call
\* raised, the instances of the state file are those it held when the
\* operation began less the names whose termination succeeded, each entry as
\* it was.
C13_PerDeletionPersistence ==
    op = "destroy" =>
        /\ InstanceNames(file.cfg) = InstanceNames(h.snap.cfg) \ TerminatedOk
        /\ \A n \in InstanceNames(file.cfg) : SameEntry(file, h.snap, n)

C13_Witness ==
    /\ op = "destroy"
    /\ pc = "raised"
    /\ lastCall.op = "terminate"
    /\ idx = 2
    /\ Len(names) = 2
    /\ TerminatedOk = {names[1]}
    /\ InstanceNames(h.snap.cfg) \ InstanceNames(file.cfg) = {names[1]}

---------------------------------------------------------------------------
(* Properties of the order of provider calls and writes while nodes are created *)

\* the names of the batch whose creation call was issued and whose entry is
\* not in the state file
Unsaved == {n \in h.created : ~HasInstance(file.cfg, n)}

\* C14: within one create_nodes, when the creation call for a node is issued
\* every name before it in the batch has its entry in the state file; at most
\* one issued creation has no entry yet, that of the current name while its
\* call is waited on or after it raised; and a droplet is polled exactly while
\* create_new_node waits.
C14_StrictlySequential ==
    op = "create" =>
        /\ Cardinality(Unsaved) <= 1
        /\ Unsaved # {} => (pc \in {"waiting", "raised"} /\ Unsaved = {names[idx]})
        /\ (pc = "waiting") <=> (cloud.pending # 0)
        /\ lastCall.op = "run_instances" =>
              \A i, j \in 1..Len(names) :
                  (names[j] = lastCall.target /\ i < j) => HasInstance(file.cfg, names[i])

C14_Witness ==
    /\ op = "create"
    /\ pc = "waiting"
    /\ Len(names) = 2
    /\ lastCall = Call("run_instances", names[2])
    /\ h.created = {names[1], names[2]}
    /\ HasInstance(file.cfg, names[1])
    /\ Unsaved = {names[2]}

\* the shared resources a driver sets up before it creates instances; the
\* DigitalOcean driver has none
PrerequisitesOf(kind) == IF kind = "aws" THEN Prerequisites ELSE {}

\* C15: within one create_nodes, when an instance-creation call is issued the
\* identifiers of the network, gateway, route table, subnet and security group
\* are in the state file.
C15_PrerequisitesFirst ==
    (op = "create" /\ lastCall.op = "run_instances") =>
        \A k \in PrerequisitesOf(drv.kind) : ~Missing(file.cfg, k)

C15_Witness ==
    /\ op = "create"
    /\ drv.kind = "aws"
    /\ lastCall.op = "run_instances"
    /\ \A k \in Prerequisites : h.made[k] = 1
    /\ \A k \in Prerequisites : ~Missing(file.cfg, k)

\* the step adds to the state file the identifier of the shared resource kind
SavesId(kind) == Missing(file.cfg, kind) /\ ~Missing(file'.cfg, kind)

\* the step adds to the state file the entry of the node n
SavesEntry(n) == ~HasInstance(file.cfg, n) /\ HasInstance(file'.cfg, n)

\* C16: a step of the cloud drivers puts into the state file the identifier of
\* a shared resource only when the call that creates the resource has returned
\* in that step, and the entry of a node only when the node's creation call has
\* returned (for a droplet: was accepted, and the droplet is now reported
\* active); a step in which the creating call raises adds nothing.
C16_WritesFollowCalls ==
    [][ /\ \A k \in Prerequisites :
              SavesId(k) => (lastCall' = Call("create", k) /\ h'.made[k] = h.made[k] + 1)
        /\ SavesId("keypair") => (lastCall' = Call("create", "keypair") /\ pc' = "ready")
        /\ \A n \in Names :
              SavesEntry(n) =>
                 /\ n \in h'.created
                 /\ pc' = "loop"
                 /\ InstanceOf(file'.cfg, n)["InstanceId"] # None
                 /\ IF drv.kind = "aws"
                    THEN lastCall' = Call("run_instances", n)
                    ELSE cloud.pending # 0 /\ lastCall' = Call("describe", n)
        /\ pc' = "raised" =>
              /\ \A k \in SharedKinds : ~SavesId(k) \/ h'.made[k] = h.made[k] + 1
              /\ \A n \in Names : ~SavesEntry(n)
      ]_vars

C16_Witness ==
    /\ op = "create"
    /\ pc = "raised"
    /\ lastCall = Call("create", "RouteTable")
    /\ h.made["InternetGateway"] = 1
    /\ h.made["RouteTable"] = 0
    /\ ~Missing(file.cfg, "InternetGateway")
    /\ Missing(file.cfg, "RouteTable")

\* the prerequisites made before kind
Before(kind) == {Chain[i] : i \in {j \in 1..Len(Chain) : \E k \in (j + 1)..Len(Chain) : Chain[k] = kind}}

\* C17: over any sequence of create_nodes invocations, the creating call for a
\* prerequisite is issued only in a step that finds its identifier absent from
\* the state file and the identifiers of the prerequisites before it in the
\* chain present in the state file; no invocation makes a prerequisite twice.
C17_IdempotentPrerequisites ==
    [][ \A k \in Prerequisites :
           lastCall' = Call("create", k) =>
              /\ ~Truthy(file.cfg[k])
              /\ \A j \in Before(k) : Truthy(file.cfg[j])
              /\ h'.made[k] <= 1
      ]_vars

C17_Witness ==
    /\ op = "create"
    /\ drv.kind = "aws"
    /\ pc = "loop"
    /\ \A k \in Prerequisites \ {"SecurityGroup"} : Truthy(h.snap.cfg[k]) /\ h.made[k] = 0
    /\ ~Truthy(h.snap.cfg["SecurityGroup"])
    /\ h.made["SecurityGroup"] = 1
    /\ h.touched = {"RouteTable", "SecurityGroup"}
    /\ \A k \in Prerequisites : Truthy(file.cfg[k])

---------------------------------------------------------------------------
(* The constructors under any environment: the commands that create nodes, run *)
(* by users whose credentials may be missing                                  *)

\* what the environment may hold: DIGITALOCEAN_ACCESS_TOKEN,
\* DIGITAL_OCEAN_KEY_FINGERPRINT and the profiles boto3 finds
Envs ==
    [token : {None, "token"}, region : {None}, sshkey : {None, "fingerprint"},
     profiles : {{}, {"p1"}}]

\* the options of cloudworkers up / create, with or without --aws-profile
AnyCloudOptions ==
    {[NoOptions EXCEPT !.seed_network = s, !.profile = p] :
        s \in {"True", "False"}, p \in {None, "p1"}}

ConstructAnyEnv ==
    \E kind \in {"aws", "digitalocean"}, in \in AnyCloudOptions, env \in Envs, callOk \in BOOLEAN :
        /\ file.exists => in.seed_network = file.cfg["seed_network"]
        /\ Construct(kind, in, env, "secret1", "secret2", callOk)

NextCredentials ==
    \/ ConstructAnyEnv
    \/ \E q \in NameSeqs : StartCreate(q)
    \/ \E o \in Outcomes : EnsureVpc(o)
    \/ \E o \in Outcomes : EnsureGateway(o)
    \/ \E o \in Outcomes : EnsureRouteTable(o)
    \/ \E o \in Outcomes : CreateRoute(o)
    \/ \E o \in Outcomes : EnsureSubnet(o)
    \/ \E o \in Outcomes : AssociateSubnet(o)
    \/ \E o \in Outcomes : EnsureSecurityGroup(o)
    \/ CreateSkip
    \/ \E o \in Outcomes : CreateNodeAWS(o)
    \/ \E o \in Outcomes : CreateNodeDO(o)
    \/ DropletActive

SpecCredentials == Init /\ [][NextCredentials]_vars

\* C18: a constructor that finds a required credential or profile absent (no
\* access token or no SSH key for DigitalOcean, no profile for AWS) raises, and
\* the state file is as it was before: not created when there was none, and
\* unchanged when there was one.
C18_MissingCredentialsNoSideEffects ==
    (op = "none" /\ h.ctor.lacks) =>
        /\ pc = "raised"
        /\ file = h.snap

C18_Witness ==
    /\ op = "none"
    /\ pc = "raised"
    /\ h.ctor = [kind |-> "digitalocean", lacks |-> TRUE]
    /\ file.exists
    /\ file = h.snap
    /\ file.cfg["sshkey"] = None
    /\ Len(file.cfg.instances) = 1
    /\ file.cfg.instances[1]["provider"] = "aws"

---------------------------------------------------------------------------
(* The generic driver on a namespace that was never created *)

\* C19: the generic driver constructed on a namespace that has no state file
\* raises, and neither a state file nor a directory exists for the namespace
\* afterwards.
C19_UnknownNamespaceFatal ==
    (op = "none" /\ h.ctor.kind = "generic" /\ ~h.snap.exists) =>
        /\ pc = "raised"
        /\ ~file.exists
        /\ ~file.dir

C19_Witness ==
    /\ op = "none"
    /\ pc = "raised"
    /\ h.ctor.kind = "generic"
    /\ ~h.snap.exists
    /\ file = NoFile
    /\ drv = NoDriver

---------------------------------------------------------------------------
(* The process killed while _write_config runs *)

\* cloudworkers create --cloudprovider digitalocean, on whatever the file is
ConstructOnAnyFile ==
    \E in \in CloudOptions :
        /\ ~Unreadable(file) /\ file.exists => in.seed_network = file.cfg["seed_network"]
        /\ Construct("digitalocean", in, GoodEnv, "secret1", "secret2", TRUE)

\* __init__ reaches its _write_config and the process is killed inside it
KilledInConstructorSave ==
    /\ Ended
    /\ ~Unreadable(file)
    /\ \E in \in CloudOptions :
          LET c0 == LoadConfig(file, "secret1", "secret2")
              p == ProviderParams("digitalocean", c0, in, GoodEnv, TRUE)
          IN  /\ file.exists => in.seed_network = file.cfg["seed_network"]
              /\ ~p.raised
              /\ config' = ApplyOptions(p.cfg, in)
              /\ h' = [FreshHistory(file, h.prev) EXCEPT
                          !.ctor = [kind |-> "digitalocean",
                                    lacks |-> Lacks("digitalocean", c0, in, GoodEnv)]]
    /\ file' = TornWrite
    /\ pc' = "killed"
    /\ drv' = NoDriver
    /\ op' = "none"
    /\ names' = <<>>
    /\ idx' = 1
    /\ lastCall' = NoCall
    /\ UNCHANGED <<sub, tries, result, capture, cloud>>

\* the droplet is active, create_nodes stores its entry, and the process is
\* killed inside the _write_config that follows
KilledInNodeSave ==
    /\ pc = "waiting"
    /\ config' = StoreNode(InitInstances(config), drv.kind,
                           NodeData(drv.kind, config, names[idx], cloud.pending))
    /\ file' = TornWrite
    /\ pc' = "killed"
    /\ cloud' = [cloud EXCEPT !.pending = 0]
    /\ lastCall' = Call("describe", names[idx])
    /\ UNCHANGED <<drv, op, names, idx, sub, tries, result, capture, h>>

NextCrash ==
    \/ ConstructOnAnyFile
    \/ KilledInConstructorSave
    \/ \E q \in NameSeqs : StartCreate(q)
    \/ CreateSkip
    \/ \E o \in Outcomes : CreateNodeDO(o)
    \/ DropletActive
    \/ KilledInNodeSave

SpecCrash == Init /\ [][NextCrash]_vars

\* C20 as stated: whatever the point of a save at which the process ends, the
\* state file holds a whole state, the one before the save or the new one, so
\* that no later load finds a file cut short.
C20_AtomicSave ==
    /\ file.exists => ~file.torn
    /\ pc = "killed" => file \in {h.snap, WriteConfig(config)}

---------------------------------------------------------------------------
(* The life of one namespace: a DigitalOcean driver and the generic driver   *)
(* constructed in any order, nodes created, added, deployed to, updated and  *)
(* destroyed                                                                 *)

\* what b64encode(os.urandom(64)) may give for keyringpassword and ethpassword
SecretPairs == {<<"key1", "eth1">>, <<"key2", "eth2">>}

\* destroy_resources on the generic driver: the names are filtered, then
\* self._destroy_resources(node_names) reaches the base method, which takes no
\* node_names (TypeError) and whose body is raise NotImplementedError
GenericDestroy(node_names) ==
    /\ Usable
    /\ drv.kind = "generic"
    /\ op' = "destroy"
    /\ names' = <<>>
    /\ pc' = "raised"
    /\ h' = StartHistory("plain", node_names)
    /\ lastCall' = NoCall
    /\ UNCHANGED <<file, config, drv, idx, sub, tries, result, capture, cloud>>

\* a command on the DigitalOcean driver, with or without --seed-network
ConstructFleet ==
    \E in \in CloudOptions, s \in SecretPairs :
        Construct("digitalocean", in, GoodEnv, s[1], s[2], TRUE)

\* a command on the generic driver, with or without --seed-network
ConstructManual ==
    \E in \in {[NoOptions EXCEPT !.seed_network = v] : v \in {"True", "False"}},
       s \in SecretPairs :
        /\ h.runs < MaxRuns
        /\ Construct("generic", in, GoodEnv, s[1], s[2], TRUE)

NextFleet ==
    \/ ConstructFleet
    \/ ConstructManual
    \/ \E q \in NameSeqs : StartCreate(q)
    \/ CreateSkip
    \/ \E o \in Outcomes : CreateNodeDO(o)
    \/ DropletActive
    \/ \E n \in Names, a \in HostAddresses : GenericCreate(<<n>>, a)
    \/ DeployBegin(InstanceKeySeq(config))
    \/ UpdateBegin(InstanceKeySeq(config))
    \/ FinishPlaybook
    \/ \E N \in SUBSET InstanceNames(config) : StartDestroy(N)
    \/ \E o \in Outcomes : Terminate(o)
    \/ GenericDestroy(InstanceNames(config))

SpecFleet == Init /\ [][NextFleet]_vars

\* C21: once the state file of the namespace exists, no construction of a
\* driver and no step of create_nodes, add, deploy, update or destroy_resources
\* removes the file or changes the keyringpassword or the ethpassword it holds,
\* whatever fresh values a later constructor draws.
C21_SecretsGeneratedOnce ==
    [][ file.exists =>
           /\ file'.exists
           /\ file'.cfg["keyringpassword"] = file.cfg["keyringpassword"]
           /\ file'.cfg["ethpassword"] = file.cfg["ethpassword"]
           /\ <<file.cfg["keyringpassword"], file.cfg["ethpassword"]>> \in SecretPairs
      ]_vars

C21_Witness ==
    /\ file.exists
    /\ file.cfg["keyringpassword"] = "key1"
    /\ file.cfg["ethpassword"] = "eth1"
    /\ op = "deploy"
    /\ pc = "done"
    /\ h.runs >= 2
    /\ \E i \in 1..Len(file.cfg.instances) : file.cfg.instances[i]["provider"] = "digitalocean"

---------------------------------------------------------------------------
(* The provider parameters over invocations in changing environments *)

\* environments that differ in DIGITALOCEAN_REGION and DIGITAL_OCEAN_KEY_FINGERPRINT
RegionEnvs ==
    [token : {"token"}, region : {None, "ams3", "sfo2"},
     sshkey : {None, "fingerprint", "fingerprint2"}, profiles : {{}}]

\* a command on the DigitalOcean driver in one of these environments
ConstructIn(envs) ==
    \E in \in CloudOptions, env \in envs :
        /\ file.exists => in.seed_network = file.cfg["seed_network"]
        /\ Construct("digitalocean", in, env, "secret1", "secret2", TRUE)

NextParams ==
    \/ ConstructIn(RegionEnvs)
    \/ \E q \in NameSeqs : StartCreate(q)
    \/ CreateSkip
    \/ \E o \in Outcomes : CreateNodeDO(o)
    \/ DropletActive

SpecParams == Init /\ [][NextParams]_vars

\* C22 as stated: a parameter that the state file holds is what a later
\* invocation given no explicit input resolves and saves, whatever the
\* environment has become (the DigitalOcean driver takes no option for its
\* region or its SSH key, so none of its invocations has explicit input).
C22_ParameterResolution ==
    (op = "none" /\ pc = "ready" /\ h.ctor.kind = "digitalocean" /\ h.snap.exists) =>
        /\ Truthy(h.snap.cfg["region"]) => file.cfg["region"] = h.snap.cfg["region"]
        /\ Truthy(h.snap.cfg["sshkey"]) => file.cfg["sshkey"] = h.snap.cfg["sshkey"]

---------------------------------------------------------------------------
(* Properties of when shared resources are made *)

\* C23 as stated: an invocation that creates no instance creates no shared
\* resource at the provider: a destroy_resources on a namespace that had no
\* state file starts with no shared resource recorded by its constructor, and a
\* create_nodes that ends without having issued an instance-creation call has
\* made no prerequisite.
C23_LazySharedResources ==
    /\ (op = "destroy" /\ h.fromEmpty) => \A k \in SharedKinds : Missing(h.snap.cfg, k)
    /\ (op = "create" /\ pc \in {"done", "raised"} /\ h.created = {}) =>
            \A k \in Prerequisites : h.made[k] = 0

\* C24: while the state file holds a seed node, no step of create_nodes, add,
\* deploy, update or the merge of captured values puts another address in its
\* place: a step that finds a seed node and leaves one leaves the same.
C24_SeedNodeSetOnce ==
    [][ (Truthy(file.cfg["seed_node"]) /\ Truthy(file'.cfg["seed_node"])) =>
            file'.cfg["seed_node"] = file.cfg["seed_node"]
      ]_vars

C24_Witness ==
    /\ op = "deploy"
    /\ pc = "done"
    /\ Truthy(h.snap.cfg["seed_node"])
    /\ file.cfg["seed_node"] = h.snap.cfg["seed_node"]
    /\ file.cfg["seed_network"] = "True"
    /\ Len(file.cfg.instances) = 2
    /\ file.cfg.instances[1]["publicaddress"] # file.cfg["seed_node"]

---------------------------------------------------------------------------
(* Properties of the removal of entries *)

\* the step takes the entry of the node n out of the state file
RemovesEntry(n) == HasInstance(file.cfg, n) /\ ~HasInstance(file'.cfg, n)

\* C25: an entry leaves the state file only in a step of destroy_resources in
\* which the terminate call for that node has returned successfully; a step in
\* which a terminate call fails leaves the file as it was.
C25_RemovedOnlyWhenTerminated ==
    [][ /\ \A n \in Names :
              RemovesEntry(n) =>
                 /\ op' = "destroy"
                 /\ lastCall' = Call("terminate", n)
                 /\ pc' # "raised"
                 /\ n \in h'.terminated
        /\ (lastCall'.op = "terminate" /\ pc' = "raised") => file' = file
      ]_vars

C25_Witness ==
    /\ op = "destroy"
    /\ pc = "raised"
    /\ lastCall = Call("terminate", "w2")
    /\ h.terminated = {"w1", "w2"}
    /\ ~HasInstance(file.cfg, "w1")
    /\ HasInstance(file.cfg, "w2")
    /\ SameEntry(file, h.snap, "w2")

\* C26 as stated: destroy_resources on the generic driver, for names whose
\* entries the generic driver owns, does not raise and ends with those entries
\* out of the state file.
C26_GenericDestroySupported ==
    (op = "destroy" /\ drv.kind = "generic"
        /\ h.requested \cap ProviderHosts(h.snap.cfg, "generic") # {}) =>
            /\ pc # "raised"
            /\ pc = "done" =>
                  \A n \in h.requested \cap ProviderHosts(h.snap.cfg, "generic") :
                      ~HasInstance(file.cfg, n)


---------------------------------------------------------------------------
(* nucypher/blockchain/eth/clients.py: Web3Client.from_w3                  *)
(*                                                                         *)
(* w3.clientVersion is a sequence of tokens: "/" is the separator, every   *)
(* other token is a run of characters without a "/".  Neighbouring runs    *)
(* are one longer run of the string, as in "Parity" "-Ethereum".  In this  *)
(* specification `result` holds the call: the clientVersion it was given   *)
(* and the client object, or the exception, it returned.                   *)

MaxTokens == 4

VersionTokens == {"/", "Geth", "Parity", "EthereumJS TestRPC", "EthereumTester", "-Ethereum", "v1"}

ClientVersions == UNION {[1..n -> VersionTokens] : n \in 0..MaxTokens}

NoClient == [cls |-> None, raised |-> None, is_local |-> None, w3 |-> None, node_technology |-> None, node_version |-> None, backend |-> None]

\* str.split('/'): every separator ends a field, also an empty one
RECURSIVE SplitFrom(_, _, _)
SplitFrom(s, i, cur) ==
    IF i > Len(s) THEN <<cur>>
    ELSE IF s[i] = "/" THEN <<cur>> \o SplitFrom(s, i + 1, "")
    ELSE SplitFrom(s, i + 1, cur \o s[i])

Split(s) == SplitFrom(s, 1, "")

\* a lookup that takes every unknown technology for Geth
SubclassOrGeth(node_technology) ==
    CASE node_technology = "Parity" -> "ParityClient"
      [] node_technology = "EthereumJS TestRPC" -> "GanacheClient"
      [] node_technology = "EthereumTester" -> "EthTestClient"
      [] OTHER -> "GethClient"

\* the dict of from_w3; "KeyError" where the key is not in it
Subclass(node_technology) ==
    CASE node_technology = "Geth" -> "GethClient"
      [] node_technology = "Parity" -> "ParityClient"
      [] node_technology = "EthereumJS TestRPC" -> "GanacheClient"
      [] node_technology = "EthereumTester" -> "EthTestClient"
      [] OTHER -> "KeyError"

\* positional parameters __init__ of the class needs after w3
MinFields(subcls) == IF subcls = "ParityClient" THEN 4 ELSE 3

IsLocal(subcls) == IF subcls \in {"GanacheClient", "EthTestClient"} THEN "True" ELSE "False"

\* subcls(w3, *client_data)
NewClient(subcls, client_data) ==
    IF Len(client_data) < MinFields(subcls)
    THEN [NoClient EXCEPT !.raised = "TypeError"]
    ELSE CASE subcls = "ParityClient" ->
                [NoClient EXCEPT !.cls = subcls, !.is_local = IsLocal(subcls), !.w3 = "w3",
                                 !.node_technology = client_data[1],
                                 !.node_version = client_data[3], !.backend = client_data[4]]
           [] subcls = "GanacheClient" ->
                \* super().__init__(self, w3, node_technology, version, backend)
                [NoClient EXCEPT !.cls = subcls, !.is_local = IsLocal(subcls), !.w3 = "self",
                                 !.node_technology = "w3",
                                 !.node_version = client_data[1], !.backend = client_data[2]]
           [] OTHER ->
                [NoClient EXCEPT !.cls = subcls, !.is_local = IsLocal(subcls), !.w3 = "w3",
                                 !.node_technology = client_data[1],
                                 !.node_version = client_data[2], !.backend = client_data[3]]

from_w3(clientVersion) ==
    LET client_data == Split(clientVersion)
        subcls == Subclass(client_data[1])
    IN  IF subcls = "KeyError"
        THEN [NoClient EXCEPT !.raised = "NotImplementedError"]
        ELSE NewClient(subcls, client_data)

InitClients ==
    /\ file = NoFile
    /\ config = EmptyConfig
    /\ drv = NoDriver
    /\ pc = "idle"
    /\ op = "none"
    /\ names = <<>>
    /\ idx = 1
    /\ sub = 1
    /\ tries = 0
    /\ \E s \in ClientVersions : result = [clientVersion |-> s, client |-> NoClient]
    /\ capture = EmptyCapture
    /\ cloud = NoCloud
    /\ lastCall = NoCall
    /\ h = FreshHistory(NoFile, NoPrev)

FromW3 ==
    /\ pc = "idle"
    /\ op = "none"
    /\ "clientVersion" \in DOMAIN result
    /\ op' = "from_w3"
    /\ pc' = "done"
    /\ result' = [result EXCEPT !.client = from_w3(result.clientVersion)]
    /\ UNCHANGED <<file, config, drv, names, idx, sub, tries, capture, cloud, lastCall, h>>

NextClients == FromW3

SpecClients == InitClients /\ [][NextClients]_vars

\* the string's first field is exactly t
FirstFieldIs(s, t) == Len(s) >= 1 /\ s[1] = t /\ (Len(s) = 1 \/ s[2] = "/")

Fields(s) == 1 + Cardinality({i \in DOMAIN s : s[i] = "/"})

Yields(cls, local) ==
    /\ result.client.raised = None
    /\ result.client.cls = cls
    /\ result.client.is_local = local

(* C27 as stated: the first field chooses the class, Geth gives GethClient,
   Parity gives ParityClient, 'EthereumJS TestRPC' gives a GanacheClient
   with is_local true, and every other technology raises
   NotImplementedError.  (The strings have the fields the class's
   constructor takes.) *)
C27_OnlyThreeTechnologies ==
    pc = "done" /\ op = "from_w3" =>
        LET s == result.clientVersion
        IN  /\ FirstFieldIs(s, "Geth") /\ Fields(s) >= 3 => Yields("GethClient", "False")
            /\ FirstFieldIs(s, "Parity") /\ Fields(s) >= 4 => Yields("ParityClient", "False")
            /\ FirstFieldIs(s, "EthereumJS TestRPC") /\ Fields(s) >= 3 => Yields("GanacheClient", "True")
            /\ (\A t \in {"Geth", "Parity", "EthereumJS TestRPC"} : ~FirstFieldIs(s, t))
                    => result.client.raised = "NotImplementedError"

(* C27: from_w3 chooses the class by the exact first '/'-separated field
   of the version string: Geth gives GethClient, Parity gives ParityClient,
   'EthereumJS TestRPC' gives a GanacheClient with is_local true,
   'EthereumTester' gives an EthTestClient with is_local true, and a first
   field that is none of these four raises NotImplementedError, whatever
   follows it; a known technology with fewer fields than the constructor
   takes raises TypeError. *)
C27_ClientDetection ==
    pc = "done" /\ op = "from_w3" =>
        LET s == result.clientVersion
            known == {"Geth", "Parity", "EthereumJS TestRPC", "EthereumTester"}
        IN  /\ FirstFieldIs(s, "Geth") /\ Fields(s) >= 3 => Yields("GethClient", "False")
            /\ FirstFieldIs(s, "Parity") /\ Fields(s) >= 4 => Yields("ParityClient", "False")
            /\ FirstFieldIs(s, "EthereumJS TestRPC") /\ Fields(s) >= 3 => Yields("GanacheClient", "True")
            /\ FirstFieldIs(s, "EthereumTester") /\ Fields(s) >= 3 => Yields("EthTestClient", "True")
            /\ (\A t \in known : ~FirstFieldIs(s, t)) => result.client.raised = "NotImplementedError"
            /\ FirstFieldIs(s, "Parity") /\ Fields(s) < 4 => result.client.raised = "TypeError"
            /\ (\E t \in known \ {"Parity"} : FirstFieldIs(s, t)) /\ Fields(s) < 3
                    => result.client.raised = "TypeError"

C27_Witness ==
    /\ pc = "done" /\ op = "from_w3"
    /\ result.clientVersion = <<"EthereumJS TestRPC", "/", "v1", "/">>
    /\ result.client.cls = "GanacheClient"
    /\ result.client.is_local = "True"


---------------------------------------------------------------------------
(* C28: the order of the prerequisite chain *)

\* the order the claim gives for creation
ClaimedChain == <<"Vpc", "Subnet", "InternetGateway", "RouteTable", "SecurityGroup">>

\* the order in which _destroy_resources deletes
TeardownOrder == <<"Subnet", "RouteTable", "SecurityGroup", "InternetGateway", "Vpc">>

Reversed(q) == [i \in 1..Len(q) |-> q[Len(q) + 1 - i]]

\* the kinds that come after kind in order
Later(order, kind) ==
    {order[i] : i \in {j \in 1..Len(order) : \E k \in 1..(j - 1) : order[k] = kind}}

\* a step keeps both orders: it creates a prerequisite only if the running
\* create_nodes has made none of the later ones, and deletes one only if the
\* running destroy_resources has issued no call for a later one
KeepsOrder(creation, deletion) ==
    \A k \in Prerequisites :
        /\ lastCall' = Call("create", k) =>
               \A j \in Later(creation, k) : h.made[j] = 0
        /\ lastCall' = Call("delete", k) =>
               Later(deletion, k) \cap h.touched = {}

(* C28 as stated: the prerequisites are created in the order network,
   subnet, gateway, route table, firewall, and a teardown deletes them in
   exactly the reverse of that order. *)
C28_ReverseOfCreation == [][KeepsOrder(ClaimedChain, Reversed(ClaimedChain))]_vars

(* C28: within one create_nodes the prerequisites are created in the order
   network, gateway, route table, subnet, firewall, each with the ones
   before it recorded; within one destroy_resources they are deleted in the
   order subnet, route table, firewall, gateway, network. *)
C28_DependencyChainOrder ==
    [][ /\ KeepsOrder(Chain, TeardownOrder)
        /\ \A k \in Prerequisites :
              lastCall' = Call("create", k) => \A j \in Before(k) : ~Missing(config', j)
      ]_vars

C28_Witness ==
    /\ op = "destroy"
    /\ lastCall = Call("delete", "Vpc")
    /\ Missing(file.cfg, "Vpc")
    /\ {"Subnet", "RouteTable", "SecurityGroup", "InternetGateway"} \subseteq h.touched


---------------------------------------------------------------------------
(* C29: a setup that was interrupted is completed by the next one *)

(* C29: whenever create_nodes issues the call that creates an AWS instance,
   the recorded gateway is attached to the recorded network and the recorded
   security group has its ingress rules, also when an earlier setup stopped
   after any of its steps. *)
C29_ResumableSetup ==
    (op = "create" /\ drv.kind = "aws" /\ lastCall.op = "run_instances") =>
        /\ ~Missing(file.cfg, "InternetGateway") /\ cloud.attached
        /\ ~Missing(file.cfg, "SecurityGroup") /\ cloud.ingress


---------------------------------------------------------------------------
(* C30: a teardown that stopped partway is finished by the next one *)

\* the running destroy_resources follows one that stopped after the network
\* was deleted and before the keypair was
NetworkGoneKeypairLeft ==
    /\ op = "destroy"
    /\ drv.kind = "aws"
    /\ h.mode = "resumed"
    /\ Missing(h.snap.cfg, "Vpc")
    /\ ~Missing(h.snap.cfg, "keypair")

(* C30: an AWS destroy_resources that follows a teardown which stopped after
   some of its deletion steps issues a delete only for a resource recorded in
   the state file it started from, and goes through the deletions that are
   left: it stops early only where a provider call failed.  In particular,
   with the network deleted and the keypair still recorded it does not raise
   before it has issued a call. *)
C30_ResumableTeardown ==
    /\ (op = "destroy" /\ drv.kind = "aws" /\ lastCall.op = "delete")
           => ~Missing(h.snap.cfg, lastCall.target)
    /\ (NetworkGoneKeypairLeft /\ pc = "raised") => lastCall.op # "none"


---------------------------------------------------------------------------
(* C31: an AWS profile that is not among the local profiles *)

(* C31: the AWS constructor fails when the resolved profile is not among the
   locally available profiles: it never returns a driver that has no provider
   session, and so never saves a state that names the unusable profile. *)
C31_UnusableProfileRejected ==
    (op = "none" /\ h.ctor.kind = "aws" /\ pc = "ready") => drv.session


---------------------------------------------------------------------------
(* C32: commands that only read, such as cloudworkers list-hosts *)

(* C32: a generic driver constructed with no options on an existing
   namespace, as list-hosts does before it reads get_all_hosts(), leaves the
   state file as it found it: seed_node, seed_network and the fleet-wide
   defaults included. *)
C32_ReadOnlyCommands ==
    (op = "none" /\ h.ctor.kind = "generic" /\ pc = "ready" /\ h.snap.exists) =>
        file.cfg = h.snap.cfg


---------------------------------------------------------------------------
(* C33: the fleet-wide settings over several commands *)

(* C33: a fleet-wide setting (blockchain_provider, nucypher_image,
   sentry_dsn, gas_strategy) that the state file holds when a command
   constructs its driver without the setting's option is the fleet-wide
   value in the file the constructor writes. *)
C33_FleetDefaultsSurvive ==
    (op = "none" /\ pc = "ready" /\ h.snap.exists) =>
        \A k \in OverrideKeys :
            (~Truthy(drv.host_level_overrides[k]) /\ Truthy(h.snap.cfg[k]))
                => file.cfg[k] = h.snap.cfg[k]


---------------------------------------------------------------------------
(* C34: seed_node and seed_network *)

\* seed_node is set only under a true seed_network
SeedNodeGoverned(cfg) == ~Truthy(cfg["seed_network"]) => cfg["seed_node"] = None

(* C34: in every state file a driver has written, and in the config of every
   driver that was constructed, seed_node is absent whenever seed_network is
   false or unset: seed_node is assigned only while seed_network is true and
   is dropped by the constructor that turns seed_network off. *)
C34_SeedingFlagGovernsSeedNode ==
    /\ file.exists => SeedNodeGoverned(file.cfg)
    /\ pc # "raised" /\ drv.kind # None => SeedNodeGoverned(config)

C34_Witness ==
    /\ op = "none"
    /\ pc = "ready"
    /\ h.snap.exists
    /\ h.snap.cfg["seed_network"] = "True"
    /\ h.snap.cfg["seed_node"] # None
    /\ file.cfg["seed_network"] = "False"
    /\ file.cfg["seed_node"] = None
    /\ Len(file.cfg.instances) > 0


---------------------------------------------------------------------------
(* C35: the node seed_node names *)

(* C35: in every state file, a seed_node that is present is the
   publicaddress of an entry of instances, also after the seed instance was
   destroyed or a manually added node was given another address. *)
C35_SeedNodeIsLive ==
    (file.exists /\ file.cfg["seed_node"] # None) =>
        \E i \in 1..Len(file.cfg.instances) :
            file.cfg.instances[i]["publicaddress"] = file.cfg["seed_node"]


---------------------------------------------------------------------------
(* C36: a captured value of a host that no entry has the address of *)

(* C36: update_captured_instance_data does not raise on a captured triple
   whose address is no entry's publicaddress: whatever was captured, the
   merge returns, the state file holds the merged config, and every entry
   holds the last value captured for its own address under each label. *)
C36_UnmatchedResultsHarmless ==
    (Deploying /\ Captured(capture) > 0 /\ pc # "playbook") =>
        /\ pc = "done"
        /\ file.cfg = config
        /\ \A i \in 1..Len(file.cfg.instances) : \A k \in Labels :
             LET own == CapturedFor(capture, k, file.cfg.instances[i]["publicaddress"])
             IN  Len(own) > 0 => file.cfg.instances[i][k] = own[Len(own)][2]


---------------------------------------------------------------------------
(* C37: what the merge leaves of an entry *)

IdentityKeys == {"InstanceId", "provider", "provider_deploy_attrs"}

(* C37: once update_captured_instance_data has returned, the state file has
   the node names it had when the command began, in the same order, and every
   entry has the InstanceId, provider and provider_deploy_attrs it had, also
   when two entries have the same publicaddress. *)
C37_MergePreservesIdentity ==
    (Deploying /\ pc = "done") =>
        /\ InstanceKeySeq(file.cfg) = InstanceKeySeq(h.snap.cfg)
        /\ \A n \in InstanceNames(h.snap.cfg) : \A k \in IdentityKeys :
              InstanceOf(file.cfg, n)[k] = InstanceOf(h.snap.cfg, n)[k]


---------------------------------------------------------------------------
(* C38: the prerequisites after a creation that failed *)

(* C38: an AWS create_nodes issues no delete or detach call, and when the
   creation of an instance fails after the setup went through, the state
   file holds the identifier of every prerequisite and the keypair it held
   when the command began. *)
C38_PrerequisitesKeptOnFailure ==
    (op = "create" /\ drv.kind = "aws") =>
        /\ lastCall.op \notin {"delete", "detach"}
        /\ (pc = "raised" /\ h.failedAt > 0) =>
              /\ \A k \in Prerequisites : file.cfg[k] = ResourceId(k)
              /\ file.cfg["keypair"] = h.snap.cfg["keypair"]
              /\ ~Missing(file.cfg, "keypair")

C38_Witness ==
    /\ op = "create"
    /\ drv.kind = "aws"
    /\ pc = "raised"
    /\ h.failedAt = 2
    /\ lastCall = Call("run_instances", "w2")
    /\ \A k \in Prerequisites : h.made[k] = 1 /\ file.cfg[k] = ResourceId(k)
    /\ HasInstance(file.cfg, "w1")


---------------------------------------------------------------------------
(* Two invocations on one namespace at the same time                       *)
(*                                                                         *)
(* Each invocation is a process of its own with its own driver object.  In *)
(* this specification `config` and `pc` are pairs, one component for each  *)
(* invocation: the self.config of its driver and where it stands.  Both    *)
(* are DigitalOcean drivers given no option; a step is what an invocation  *)
(* does up to and including one _write_config().                           *)

Invocations == {1, 2}

InitConcurrent ==
    /\ file = NoFile
    /\ config = [i \in Invocations |-> EmptyConfig]
    /\ drv = NoDriver
    /\ pc = [i \in Invocations |-> "idle"]
    /\ op = "none"
    /\ names = <<>>
    /\ idx = 1
    /\ sub = 1
    /\ tries = 0
    /\ result = None
    /\ capture = EmptyCapture
    /\ cloud = NoCloud
    /\ lastCall = NoCall
    /\ h = FreshHistory(NoFile, NoPrev)

\* __init__ of invocation i: the file is read into its own self.config, which
\* takes the options and is written back
LoadAt(i) ==
    /\ pc[i] \in {"idle", "done"}
    /\ h.runs < MaxRuns
    /\ LET c0 == LoadConfig(file, "secret1", "secret2")
           p == ProviderParams("digitalocean", c0, NoOptions, GoodEnv, TRUE)
           c1 == ApplyOptions(p.cfg, NoOptions)
       IN  /\ config' = [config EXCEPT ![i] = c1]
           /\ file' = WriteConfig(c1)
    /\ pc' = [pc EXCEPT ![i] = "ready"]
    /\ h' = [h EXCEPT !.runs = @ + 1]
    /\ lastCall' = NoCall
    /\ UNCHANGED <<drv, op, names, idx, sub, tries, result, capture, cloud>>

\* the instance the provider hands out: one that neither copy nor the file holds
FreeInstances ==
    InstancePool \ (UsedInstances(file.cfg) \cup UNION {UsedInstances(config[i]) : i \in Invocations})

\* one round of the loop of create_nodes in invocation i, for a name that its
\* own copy has no entry of: create_new_node, the entry, the write
CreateAt(i, n) ==
    /\ pc[i] = "ready"
    /\ NeedsCreate(config[i], n)
    /\ FreeInstances # {}
    /\ LET inst == CHOOSE x \in FreeInstances : \A y \in FreeInstances : x <= y
           c1 == StoreNode(InitInstances(config[i]), "digitalocean",
                           NodeData("digitalocean", config[i], n, inst))
       IN  /\ config' = [config EXCEPT ![i] = c1]
           /\ file' = PersistNode(file, c1)
    /\ lastCall' = Call("run_instances", n)
    /\ UNCHANGED <<drv, pc, op, names, idx, sub, tries, result, capture, cloud, h>>

\* create_nodes of invocation i returns and the process ends
ReturnAt(i) ==
    /\ pc[i] = "ready"
    /\ pc' = [pc EXCEPT ![i] = "done"]
    /\ lastCall' = NoCall
    /\ UNCHANGED <<file, config, drv, op, names, idx, sub, tries, result, capture, cloud, h>>

NextConcurrent ==
    \/ \E i \in Invocations : LoadAt(i)
    \/ \E i \in Invocations, n \in Names : CreateAt(i, n)
    \/ \E i \in Invocations : ReturnAt(i)

SpecConcurrent == InitConcurrent /\ [][NextConcurrent]_vars

(* C39: invocations on one namespace are not serialized: every save writes
   the whole in-memory copy of the invocation that makes it, whatever the
   file holds by then, and an invocation may load and save while the other
   is between its own load and its last save.  So the state of the witness
   is reachable: an entry that one invocation saved is missing from the
   file after the other's save. *)
C39_ConcurrentNotSerialized ==
    [][ file' # file =>
           \E i \in Invocations :
               /\ config'[i] # config[i] \/ pc'[i] # pc[i]
               /\ file'.cfg = config'[i]
               /\ \A j \in Invocations \ {i} : config'[j] = config[j] /\ pc'[j] = pc[j]
      ]_vars

C39_Witness ==
    /\ pc[1] = "ready"
    /\ pc[2] = "ready"
    /\ HasInstance(config[1], "w1")
    /\ ~HasInstance(config[2], "w1")
    /\ HasInstance(config[2], "w2")
    /\ file.cfg = config[2]
    /\ ~HasInstance(file.cfg, "w1")


---------------------------------------------------------------------------
(* The polling loop of DigitalOceanConfigurator.create_new_node *)

\* a poll that found the droplet not active would end the wait
GivenUp == "raised"

\* where create_new_node stands after a poll that found the droplet not yet
\* active, or active without a public address: the while loop has no bound
StillWaiting == "waiting"

\* one round of the while loop that leaves instance_public_ip None
DropletPending ==
    /\ pc = "waiting"
    /\ pc' = StillWaiting
    /\ lastCall' = Call("describe", names[idx])
    /\ UNCHANGED <<file, config, drv, op, names, idx, sub, tries, result, capture, cloud, h>>

NextWait ==
    \/ ConstructFleet
    \/ \E q \in NameSeqs : StartCreate(q)
    \/ CreateSkip
    \/ \E o \in Outcomes : CreateNodeDO(o)
    \/ DropletPending
    \/ DropletActive

\* the provider does report the droplet active with a public address
SpecWait == Init /\ [][NextWait]_vars /\ WF_vars(DropletActive)

(* C40: while create_new_node of the droplet driver waits, the state file
   has no entry for the node; no round of the polling loop ends the wait
   before the provider reports the droplet active with a public address;
   and, the provider reporting that eventually, the wait ends with the
   node's entry saved, holding the droplet's id and a public address. *)
C40_BlockingReadinessWait ==
    /\ [](pc = "waiting" => ~HasInstance(file.cfg, names[idx]))
    /\ [][pc = "waiting" /\ pc' # "waiting" =>
             /\ pc' = "loop"
             /\ HasInstance(file'.cfg, names[idx])
             /\ InstanceOf(file'.cfg, names[idx])["InstanceId"] = InstanceIdOf(cloud.pending)
             /\ InstanceOf(file'.cfg, names[idx])["publicaddress"] = AddressOf(cloud.pending)]_vars
    /\ \A n \in Names :
          (pc = "waiting" /\ names[idx] = n)
              ~> (pc = "loop" /\ HasInstance(file.cfg, n)
                    /\ InstanceOf(file.cfg, n)["publicaddress"] \in Addresses)

C40_Witness ==
    /\ op = "create"
    /\ drv.kind = "digitalocean"
    /\ pc = "waiting"
    /\ lastCall = Call("describe", "w2")
    /\ cloud.pending # 0
    /\ HasInstance(file.cfg, "w1")
    /\ ~HasInstance(file.cfg, "w2")

====
